---- MODULE Spec2Model ----
(***************************************************************************)
(* Single-line-diagram converter (SLDConverter).                           *)
(*                                                                         *)
(* Two versions of the module sld-converter.js exist in the repository:    *)
(*   - the canvas version (second half of src/sld/sld-cli.js), whose       *)
(*     layout engine is generateLayout (horizontal daisy-chain layout);    *)
(*   - the SVG version (src/sld/sld-converter.js), whose layout is built   *)
(*     inside convertToSVG (column/grid layout with a busbar).             *)
(* A process loads one of them (require('./sld-converter')), constructs    *)
(* one converter and then converts documents with it, one after another.   *)
(*                                                                         *)
(* JavaScript arrays are 0-based, TLA+ sequences 1-based: a loop index i   *)
(* of the source is the sequence index i + 1 here, and identifiers and     *)
(* coordinates are computed from the source's 0-based index.               *)
(***************************************************************************)
EXTENDS Integers, Sequences, FiniteSets, TLC

VARIABLES variant, configured, options, symbols, pc, jsonData, result, completed,
          error, written, page,
          browser, browsers, openPages, pdfPc, pdfError, pdfOptions, command,
          process

\* variant:    which version of sld-converter.js the process loaded
\* configured: this.options as the constructor left them
\* options:    this.options
\* symbols:    this.symbols (footprints only)
\* pc:         position of the process in the file wrapper
\* jsonData:   the parsed input document
\* result:     what the conversion returned
\* completed:  whether the converter has already served a conversion
\* error:      the error the current call raised (NoError: none); once the
\*             call has ended, the error it threw to its caller
\* written:    whether the current call has written its output file
\* page:       what the script of the generated canvas page has computed
\* browser:    this.browser of the HTMLToPDFConverter: NoBrowser (null) or the
\*             number of the browser it refers to
\* browsers:   the browsers launched so far, each "live" or "closed"
\* openPages:  how many pages are open in the browsers
\* pdfPc:      position of the PDF program
\* pdfError:   the error the current PDF call raised (NoError: none); once the
\*             call has ended, the error it threw to its caller
\* pdfOptions: which optional steps the options of the current PDF call ask for
\* command:    the command the PDF command line runs ("none": the converter
\*             is driven by a program that requires it)
\* process:    whether the PDF process is running, has ended, or has exited
sldVars == <<variant, configured, options, symbols, pc, jsonData, result, completed,
             error, written, page>>

pdfVars == <<browser, browsers, openPages, pdfPc, pdfError, pdfOptions, command,
             process>>

vars == <<variant, configured, options, symbols, pc, jsonData, result, completed,
          error, written, page,
          browser, browsers, openPages, pdfPc, pdfError, pdfOptions, command,
          process>>

(***************************************************************************)
(* Bounds of the model.                                                    *)
(***************************************************************************)
\* Total number of inverters, isolators, strings and panels of one document.
MaxNodes == 7

Models == {"X"}

Max(a, b) == IF a >= b THEN a ELSE b

Min(a, b) == IF a <= b THEN a ELSE b

\* whether a property of a parsed JSON object is present (not undefined)
hasField(obj, key) == key \in DOMAIN obj

(***************************************************************************)
(* Input documents: every SystemDescription tree with at most MaxNodes     *)
(* nodes.  A string of length n counts 1 + n nodes.                        *)
(***************************************************************************)
RECURSIVE SeqsOfCost(_, _)
RECURSIVE NodesOfCost(_, _)
\* level 1: inverter, level 2: isolator, level 3: pvstring
NodesOfCost(level, c) ==
  IF level = 3 THEN {[model |-> m, length |-> c - 1] : m \in Models}
  ELSE IF level = 2 THEN {[pvstrings |-> s] : s \in SeqsOfCost(3, c - 1)}
  ELSE {[isolators |-> s] : s \in SeqsOfCost(2, c - 1)}

SeqsOfCost(level, b) ==
  IF b = 0 THEN {<<>>}
  ELSE UNION {{<<n>> \o s : n \in NodesOfCost(level, c), s \in SeqsOfCost(level, b - c)} :
              c \in 1..b}

Inputs == {[inverters |-> s] : s \in UNION {SeqsOfCost(1, b) : b \in 0..MaxNodes}}

(***************************************************************************)
(* Documents that parse as JSON but need not have the shape of a           *)
(* SystemDescription: every tree with at most MaxLooseNodes nodes in which *)
(* the document may lack `inverters`, an inverter `isolators`, an isolator *)
(* `pvstrings` and a string `length`.  A node that lacks its field costs 1.*)
(***************************************************************************)
MaxLooseNodes == 5

RECURSIVE LooseSeqsOfCost(_, _)
RECURSIVE LooseNodesOfCost(_, _)
LooseNodesOfCost(level, c) ==
  IF level = 3
  THEN {[model |-> m, length |-> c - 1] : m \in Models}
         \cup (IF c = 1 THEN {[model |-> m] : m \in Models} ELSE {})
  ELSE IF level = 2
  THEN {[pvstrings |-> s] : s \in LooseSeqsOfCost(3, c - 1)}
         \cup (IF c = 1 THEN {[name |-> "isolator"]} ELSE {})
  ELSE {[isolators |-> s] : s \in LooseSeqsOfCost(2, c - 1)}
         \cup (IF c = 1 THEN {[name |-> "inverter"]} ELSE {})

LooseSeqsOfCost(level, b) ==
  IF b = 0 THEN {<<>>}
  ELSE UNION {{<<n>> \o s : n \in LooseNodesOfCost(level, c),
                            s \in LooseSeqsOfCost(level, b - c)} :
              c \in 1..b}

LooseInputs ==
  {[inverters |-> s] : s \in UNION {LooseSeqsOfCost(1, b) : b \in 0..MaxLooseNodes}}
    \cup {[name |-> "system"]}

(***************************************************************************)
(* Constructor.  The argument is the options object handed to              *)
(* new SLDConverter(...): a record holding some of width, height, margin.  *)
(* { width: options.width || 1200, ..., ...options }: a key that is        *)
(* present keeps its value (the spread overrides the default), an absent   *)
(* key gets the default.                                                   *)
(***************************************************************************)
OptionOr(args, key, default) == IF key \in DOMAIN args THEN args[key] ELSE default

SLDConverter(args) ==
  [width  |-> OptionOr(args, "width", 1200),
   height |-> OptionOr(args, "height", 800),
   margin |-> OptionOr(args, "margin", 50)]

initializeSymbols(v) ==
  IF v = "canvas"
  THEN [inverter |-> [width |-> 80, height |-> 50],
        isolator |-> [width |-> 40, height |-> 40],
        pvString |-> [width |-> 60, height |-> 40]]
  ELSE [inverter |-> [width |-> 80, height |-> 50],
        isolator |-> [width |-> 40, height |-> 40],
        pvString |-> [width |-> 60, height |-> 40],
        busbar   |-> [width |-> 20, height |-> 400]]

(***************************************************************************)
(* Number formatting of template literals: `${n}`.                         *)
(***************************************************************************)
Str(n) == ToString(n)

inverterId(i) == "inverter_" \o Str(i)

isolatorId(i, j) == "isolator_" \o Str(i) \o "_" \o Str(j)

\* the string index left out of the identifier
panelId_noString(i, j, s, p) == "pv_" \o Str(i) \o "_" \o Str(j) \o "_" \o Str(p)

panelId(i, j, s, p) == "pv_" \o Str(i) \o "_" \o Str(j) \o "_" \o Str(s) \o "_" \o Str(p)

\* every panel labelled, not only the first of its string
panelLabel_everyPanel(model, stringLength, p) ==
  model \o " (" \o Str(stringLength) \o " panels)"

panelLabel(model, stringLength, p) ==
  IF p = 0 THEN model \o " (" \o Str(stringLength) \o " panels)" ELSE ""

(***************************************************************************)
(* generateLayout of the canvas version (daisy-chain layout).              *)
(* All indices i, j, s, p below are the source's 0-based indices.          *)
(***************************************************************************)
pvStringSpacing == 80

isolatorVerticalSpacing == 80

stringVerticalSpacing == 70

betweenInvertersSpacing == 200

minBlockHeight == 140

inverterX(opts) == opts.margin

isolatorX(opts) == inverterX(opts) + 180

pvStartX(opts) == isolatorX(opts) + 150
\* the string count taken as it is, without `|| 1`
numStrings_asCounted(isolator) == Len(isolator.pvstrings)

\* isolator.pvstrings.length || 1
numStrings(isolator) ==
  IF Len(isolator.pvstrings) = 0 THEN 1 ELSE Len(isolator.pvstrings)

RECURSIVE sumBlockHeight(_, _)
\* the loop over inverter.isolators that accumulates blockHeight, from index j
sumBlockHeight(isolators, j) ==
  IF j >= Len(isolators) THEN 0
  ELSE (numStrings(isolators[j + 1]) * stringVerticalSpacing) + isolatorVerticalSpacing
       + sumBlockHeight(isolators, j + 1)
\* the minimum taken for the block height whatever the isolators need
blockHeightOf_minimumOnly(inverter) == minBlockHeight

\* the block height without its floor of 140
blockHeightOf_noFloor(inverter) == sumBlockHeight(inverter.isolators, 0)

blockHeightOf(inverter) == Max(sumBlockHeight(inverter.isolators, 0), minBlockHeight)

\* const stringLength = pvString.length; for (p = 0; p < stringLength; p++):
\* the number of times the panel loop runs.  Without `length`, stringLength
\* is undefined and `0 < undefined` is false.
panelCount(pvString) == IF hasField(pvString, "length") THEN pvString.length ELSE 0

\* every panel of a string placed at the start column
panelsInString_stacked(opts, i, j, s, pvString, stringY) ==
  [q \in 1..panelCount(pvString) |->
     [id    |-> panelId(i, j, s, q - 1),
      type  |-> "pvString",
      x     |-> pvStartX(opts),
      y     |-> stringY,
      label |-> panelLabel(pvString.model, pvString.length, q - 1)]]

\* the panel loop run with p <= stringLength
panelsInString_oneMore(opts, i, j, s, pvString, stringY) ==
  [q \in 1..(panelCount(pvString) + 1) |->
     [id    |-> panelId(i, j, s, q - 1),
      type  |-> "pvString",
      x     |-> pvStartX(opts) + ((q - 1) * pvStringSpacing),
      y     |-> stringY,
      label |-> panelLabel(pvString.model, pvString.length, q - 1)]]

\* the panel loop of one string: the components it pushes
panelsInString(opts, i, j, s, pvString, stringY) ==
  [q \in 1..panelCount(pvString) |->
     [id    |-> panelId(i, j, s, q - 1),
      type  |-> "pvString",
      x     |-> pvStartX(opts) + ((q - 1) * pvStringSpacing),
      y     |-> stringY,
      label |-> panelLabel(pvString.model, pvString.length, q - 1)]]
\* the return edge taken from the first panel of the string
stringConnections_returnFromFirst(i, j, panels) ==
  IF Len(panels) > 0
  THEN <<[from |-> isolatorId(i, j), to |-> panels[1].id, type |-> "daisy_positive"]>>
       \o [q \in 1..(Len(panels) - 1) |->
             [from |-> panels[q].id, to |-> panels[q + 1].id, type |-> "daisy_positive"]]
       \o <<[from |-> panels[1].id, to |-> isolatorId(i, j),
             type |-> "daisy_negative_return"]>>
  ELSE <<>>
\* the return edge pushed before the chain of the string
stringConnections_returnFirst(i, j, panels) ==
  IF Len(panels) > 0
  THEN <<[from |-> panels[Len(panels)].id, to |-> isolatorId(i, j),
          type |-> "daisy_negative_return"]>>
       \o <<[from |-> isolatorId(i, j), to |-> panels[1].id, type |-> "daisy_positive"]>>
       \o [q \in 1..(Len(panels) - 1) |->
             [from |-> panels[q].id, to |-> panels[q + 1].id, type |-> "daisy_positive"]]
  ELSE <<>>

\* the connections pushed for one string once its panels exist
stringConnections(i, j, panels) ==
  IF Len(panels) > 0
  THEN <<[from |-> isolatorId(i, j), to |-> panels[1].id, type |-> "daisy_positive"]>>
       \o [q \in 1..(Len(panels) - 1) |->
             [from |-> panels[q].id, to |-> panels[q + 1].id, type |-> "daisy_positive"]]
       \o <<[from |-> panels[Len(panels)].id, to |-> isolatorId(i, j),
             type |-> "daisy_negative_return"]>>
  ELSE <<>>

\* both home-run edges leaving the isolator
isolatorConnections_bothFromIsolator(i, j) ==
  <<[from |-> isolatorId(i, j), to |-> inverterId(i), type |-> "daisy_positive"],
    [from |-> isolatorId(i, j), to |-> inverterId(i), type |-> "daisy_negative_return"]>>

\* the two connections pushed for one isolator: the positive run from its
\* inverter and the negative return to it
isolatorConnections(i, j) ==
  <<[from |-> inverterId(i), to |-> isolatorId(i, j), type |-> "daisy_positive"],
    [from |-> isolatorId(i, j), to |-> inverterId(i), type |-> "daisy_negative_return"]>>

RECURSIVE stringLoop(_, _, _, _, _, _, _)
\* the loop over isolator.pvstrings from index s; acc holds components,
\* connections and stringYoffset
stringLoop(opts, i, j, isolator, isolatorY, s, acc) ==
  IF s >= Len(isolator.pvstrings) THEN acc
  ELSE LET panels == panelsInString(opts, i, j, s, isolator.pvstrings[s + 1],
                                    isolatorY + acc.stringYoffset)
       IN stringLoop(opts, i, j, isolator, isolatorY, s + 1,
            [components    |-> acc.components \o panels,
             connections   |-> acc.connections \o stringConnections(i, j, panels),
             stringYoffset |-> acc.stringYoffset + stringVerticalSpacing])

RECURSIVE isolatorLoop(_, _, _, _, _)
\* the loop over inverter.isolators from index j; acc holds components,
\* connections and isolatorY
isolatorLoop(opts, i, inverter, j, acc) ==
  IF j >= Len(inverter.isolators) THEN acc
  ELSE LET isolatorComponent ==
             [id |-> isolatorId(i, j), type |-> "isolator", x |-> isolatorX(opts),
              y |-> acc.isolatorY,
              label |-> "Isolator " \o Str(i + 1) \o "-" \o Str(j + 1)]
           strings ==
             stringLoop(opts, i, j, inverter.isolators[j + 1], acc.isolatorY, 0,
                        [components    |-> acc.components \o <<isolatorComponent>>,
                         connections   |-> acc.connections \o isolatorConnections(i, j),
                         stringYoffset |-> 0])
       IN isolatorLoop(opts, i, inverter, j + 1,
            [components  |-> strings.components,
             connections |-> strings.connections,
             isolatorY   |-> acc.isolatorY + strings.stringYoffset + isolatorVerticalSpacing])

RECURSIVE inverterLoop(_, _, _, _, _)
\* the loop over jsonData.inverters from index i; acc holds components,
\* connections and currentY.  blockHeight is a sum of multiples of 10 and the
\* inverter height is 50, so the halves are exact.
inverterLoop(opts, syms, data, i, acc) ==
  IF i >= Len(data.inverters) THEN acc
  ELSE LET inverter == data.inverters[i + 1]
           blockHeight == blockHeightOf(inverter)
           inverterCenterY == acc.currentY + (blockHeight \div 2)
           inverterTopY == inverterCenterY - (syms.inverter.height \div 2)
           inverterComponent ==
             [id |-> inverterId(i), type |-> "inverter", x |-> inverterX(opts),
              y |-> inverterTopY, label |-> "Inverter " \o Str(i + 1)]
           block ==
             isolatorLoop(opts, i, inverter, 0,
                          [components  |-> acc.components \o <<inverterComponent>>,
                           connections |-> acc.connections,
                           isolatorY   |-> inverterCenterY - (blockHeight \div 2)])
       IN inverterLoop(opts, syms, data, i + 1,
            [components  |-> block.components,
             connections |-> block.connections,
             currentY    |-> acc.currentY + blockHeight + betweenInvertersSpacing])

\* Reading .length of a missing property raises a TypeError: jsonData.inverters
\* (loop head), inverter.isolators and isolator.pvstrings (block-height loop).

\* an empty inverters array taken for a missing one
throwsTypeError_emptyIsMissing(data) ==
  \/ ~hasField(data, "inverters")
  \/ Len(data.inverters) = 0
  \/ \E i \in 1..Len(data.inverters) :
        \/ ~hasField(data.inverters[i], "isolators")
        \/ \E j \in 1..Len(data.inverters[i].isolators) :
              ~hasField(data.inverters[i].isolators[j], "pvstrings")

throwsTypeError(data) ==
  \/ ~hasField(data, "inverters")
  \/ \E i \in 1..Len(data.inverters) :
        \/ ~hasField(data.inverters[i], "isolators")
        \/ \E j \in 1..Len(data.inverters[i].isolators) :
              ~hasField(data.inverters[i].isolators[j], "pvstrings")

RECURSIVE maxRightOf(_, _, _)
\* components.forEach: maxRight = Math.max(maxRight, c.x + width), from index n
maxRightOf(syms, components, n) ==
  IF n >= Len(components) THEN 0
  ELSE Max(components[n + 1].x + syms[components[n + 1].type].width,
           maxRightOf(syms, components, n + 1))

RECURSIVE maxBottomOf(_, _, _)
maxBottomOf(syms, components, n) ==
  IF n >= Len(components) THEN 0
  ELSE Max(components[n + 1].y + syms[components[n + 1].type].height,
           maxBottomOf(syms, components, n + 1))

\* the canvas grown to the bounding box without margin and padding
generateLayout_unpadded(opts, syms, data) ==
  LET placed == inverterLoop(opts, syms, data, 0,
                             [components  |-> <<>>,
                              connections |-> <<>>,
                              currentY    |-> opts.margin + 120])
  IN [components  |-> placed.components,
      connections |-> placed.connections,
      width  |-> Max(opts.width, maxRightOf(syms, placed.components, 0)),
      height |-> Max(opts.height, maxBottomOf(syms, placed.components, 0))]

\* the canvas sized to the content alone, the configured minimum forgotten
generateLayout_noFloor(opts, syms, data) ==
  LET placed == inverterLoop(opts, syms, data, 0,
                             [components  |-> <<>>,
                              connections |-> <<>>,
                              currentY    |-> opts.margin + 120])
  IN [components  |-> placed.components,
      connections |-> placed.connections,
      width  |-> maxRightOf(syms, placed.components, 0) + opts.margin + 80,
      height |-> maxBottomOf(syms, placed.components, 0) + opts.margin + 120]

generateLayout(opts, syms, data) ==
  LET placed == inverterLoop(opts, syms, data, 0,
                             [components  |-> <<>>,
                              connections |-> <<>>,
                              currentY    |-> opts.margin + 120])
  IN [components  |-> placed.components,
      connections |-> placed.connections,
      width  |-> Max(opts.width, maxRightOf(syms, placed.components, 0) + opts.margin + 80),
      height |-> Max(opts.height, maxBottomOf(syms, placed.components, 0) + opts.margin + 120)]

(***************************************************************************)
(* convertToSVG of the SVG version (column/grid layout with a busbar).     *)
(***************************************************************************)
pvStringsPerRow == 4

gridPvStringSpacing == 110

pvStringRowSpacing == 90

gridIsolatorSpace == 120

gridBetweenInvertersSpacing == 150

busbarPadding == 60

busbarX(opts) == opts.margin

gridInverterX(opts) == busbarX(opts) + 200

gridIsolatorX(opts) == gridInverterX(opts) + 200

pvStringX(opts) == gridIsolatorX(opts) + 220

gridPvId(i, j, k) == "pv_" \o Str(i) \o "_" \o Str(j) \o "_" \o Str(k)

\* Math.ceil(n / pvStringsPerRow)
rowsOf(n) == (n + pvStringsPerRow - 1) \div pvStringsPerRow

RECURSIVE gridSumBlockHeight(_, _)
gridSumBlockHeight(isolators, j) ==
  IF j >= Len(isolators) THEN 0
  ELSE (rowsOf(Len(isolators[j + 1].pvstrings)) * pvStringRowSpacing) + gridIsolatorSpace
       + gridSumBlockHeight(isolators, j + 1)

gridBlockHeightOf(inverter) == Max(gridSumBlockHeight(inverter.isolators, 0), minBlockHeight)

\* `${pvString.length}` in the label template
lengthText(pvString) ==
  IF hasField(pvString, "length") THEN Str(pvString.length) ELSE "undefined"
\* the strings wrapped after four without moving a row down
gridPvComponents_sameRow(opts, i, j, isolator, isolatorY) ==
  LET totalWidth == (pvStringsPerRow - 1) * gridPvStringSpacing
      startX == pvStringX(opts) - (totalWidth \div 2)
  IN [q \in 1..Len(isolator.pvstrings) |->
        [id    |-> gridPvId(i, j, q - 1),
         type  |-> "pvString",
         x     |-> startX + (((q - 1) % pvStringsPerRow) * gridPvStringSpacing),
         y     |-> isolatorY + 80,
         label |-> isolator.pvstrings[q].model \o " ("
                   \o lengthText(isolator.pvstrings[q]) \o " panels)"]]

\* the loop over isolator.pvstrings: the components it pushes
gridPvComponents(opts, i, j, isolator, isolatorY) ==
  LET totalWidth == (pvStringsPerRow - 1) * gridPvStringSpacing
      startX == pvStringX(opts) - (totalWidth \div 2)
  IN [q \in 1..Len(isolator.pvstrings) |->
        [id    |-> gridPvId(i, j, q - 1),
         type  |-> "pvString",
         x     |-> startX + (((q - 1) % pvStringsPerRow) * gridPvStringSpacing),
         y     |-> isolatorY + 80 + (((q - 1) \div pvStringsPerRow) * pvStringRowSpacing),
         label |-> isolator.pvstrings[q].model \o " ("
                   \o lengthText(isolator.pvstrings[q]) \o " panels)"]]

\* the isolator named with its indices swapped
gridPvConnections_swapped(i, j, isolator) ==
  [q \in 1..Len(isolator.pvstrings) |->
     [from |-> gridPvId(i, j, q - 1), to |-> isolatorId(j, i), type |-> "pv_connection"]]

\* the loop over isolator.pvstrings: the connections it pushes
gridPvConnections(i, j, isolator) ==
  [q \in 1..Len(isolator.pvstrings) |->
     [from |-> gridPvId(i, j, q - 1), to |-> isolatorId(i, j), type |-> "pv_connection"]]

RECURSIVE gridIsolatorLoop(_, _, _, _, _)
\* the loop over inverter.isolators from index j; acc holds components,
\* connections and isolatorY
gridIsolatorLoop(opts, i, inverter, j, acc) ==
  IF j >= Len(inverter.isolators) THEN acc
  ELSE LET isolator == inverter.isolators[j + 1]
           isolatorComponent ==
             [id |-> isolatorId(i, j), type |-> "isolator", x |-> gridIsolatorX(opts),
              y |-> acc.isolatorY,
              label |-> "DC Isolator " \o Str(i + 1) \o "-" \o Str(j + 1)]
           dc == [from |-> isolatorId(i, j), to |-> inverterId(i), type |-> "dc_connection"]
           rows == rowsOf(Len(isolator.pvstrings))
       IN gridIsolatorLoop(opts, i, inverter, j + 1,
            [components  |-> acc.components \o <<isolatorComponent>>
                             \o gridPvComponents(opts, i, j, isolator, acc.isolatorY),
             connections |-> acc.connections \o <<dc>> \o gridPvConnections(i, j, isolator),
             isolatorY   |-> acc.isolatorY + (rows * pvStringRowSpacing) + gridIsolatorSpace])

RECURSIVE gridInverterLoop(_, _, _, _, _)
\* the loop over jsonData.inverters from index i; acc holds components,
\* connections, currentY, layoutTop and layoutBottom.  layoutTop and
\* layoutBottom start as Infinity and -Infinity: hasExtent tells whether
\* they have been set.  blockHeight is even, so the halves are exact.
gridInverterLoop(opts, syms, data, i, acc) ==
  IF i >= Len(data.inverters) THEN acc
  ELSE LET inverter == data.inverters[i + 1]
           blockHeight == gridBlockHeightOf(inverter)
           inverterCenterY == acc.currentY + (blockHeight \div 2)
           inverterTopY == inverterCenterY - (syms.inverter.height \div 2)
           inverterComponent ==
             [id |-> inverterId(i), type |-> "inverter", x |-> gridInverterX(opts),
              y |-> inverterTopY, label |-> "Inverter " \o Str(i + 1)]
           bus == [from |-> "busbar_main", to |-> inverterId(i), type |-> "busbar_connection"]
           block ==
             gridIsolatorLoop(opts, i, inverter, 0,
                              [components  |-> acc.components \o <<inverterComponent>>,
                               connections |-> acc.connections \o <<bus>>,
                               isolatorY   |-> inverterCenterY - (blockHeight \div 2)])
           top == inverterCenterY - (blockHeight \div 2)
           bottom == inverterCenterY + (blockHeight \div 2)
       IN gridInverterLoop(opts, syms, data, i + 1,
            [components   |-> block.components,
             connections  |-> block.connections,
             currentY     |-> acc.currentY + blockHeight + gridBetweenInvertersSpacing,
             hasExtent    |-> TRUE,
             layoutTop    |-> IF acc.hasExtent THEN Min(acc.layoutTop, top) ELSE top,
             layoutBottom |-> IF acc.hasExtent THEN Max(acc.layoutBottom, bottom) ELSE bottom])

\* footprint of a component as the canvas expansion and the renderer take it
footprintWidth(syms, c) ==
  IF c.type = "busbar" THEN (IF c.width = 0 THEN 20 ELSE c.width) ELSE syms[c.type].width

footprintHeight(syms, c) ==
  IF c.type = "busbar" THEN (IF c.height = 0 THEN syms[c.type].height ELSE c.height)
  ELSE syms[c.type].height

RECURSIVE gridMaxRightOf(_, _, _)
gridMaxRightOf(syms, components, n) ==
  IF n >= Len(components) THEN 0
  ELSE Max(components[n + 1].x + footprintWidth(syms, components[n + 1]),
           gridMaxRightOf(syms, components, n + 1))

RECURSIVE gridMaxBottomOf(_, _, _)
gridMaxBottomOf(syms, components, n) ==
  IF n >= Len(components) THEN 0
  ELSE Max(components[n + 1].y + footprintHeight(syms, components[n + 1]),
           gridMaxBottomOf(syms, components, n + 1))
\* the busbar left at its provisional place and height
gridLayout_busbarNotResized(opts, syms, data) ==
  LET busbarComponent ==
        [id |-> "busbar_main", type |-> "busbar", x |-> busbarX(opts), y |-> opts.margin,
         width |-> 20, height |-> 100, label |-> "Main Bus"]
      placed == gridInverterLoop(opts, syms, data, 0,
                                 [components   |-> <<busbarComponent>>,
                                  connections  |-> <<>>,
                                  currentY     |-> opts.margin + 120,
                                  hasExtent    |-> FALSE,
                                  layoutTop    |-> 0,
                                  layoutBottom |-> 0])
  IN [components  |-> placed.components,
      connections |-> placed.connections]

\* the components and connections convertToSVG hands to generateSVG
gridLayout(opts, syms, data) ==
  LET busbarComponent ==
        [id |-> "busbar_main", type |-> "busbar", x |-> busbarX(opts), y |-> opts.margin,
         width |-> 20, height |-> 100, label |-> "Main Bus"]
      placed == gridInverterLoop(opts, syms, data, 0,
                                 [components   |-> <<busbarComponent>>,
                                  connections  |-> <<>>,
                                  currentY     |-> opts.margin + 120,
                                  hasExtent    |-> FALSE,
                                  layoutTop    |-> 0,
                                  layoutBottom |-> 0])
      busbarFinal ==
        IF placed.hasExtent
        THEN [busbarComponent EXCEPT
                !.y = placed.layoutTop - busbarPadding,
                !.height = (placed.layoutBottom - placed.layoutTop) + (busbarPadding * 2)]
        ELSE busbarComponent
  IN [components  |-> [placed.components EXCEPT ![1] = busbarFinal],
      connections |-> placed.connections]
\* the canvas sized to the content of the call alone
expandedOptions_contentOnly(opts, syms, components) ==
  [opts EXCEPT
     !.width  = gridMaxRightOf(syms, components, 0) + opts.margin + 80,
     !.height = gridMaxBottomOf(syms, components, 0) + opts.margin + 120]

\* this.options after the canvas expansion of convertToSVG
expandedOptions(opts, syms, components) ==
  [opts EXCEPT
     !.width  = Max(opts.width, gridMaxRightOf(syms, components, 0) + opts.margin + 80),
     !.height = Max(opts.height, gridMaxBottomOf(syms, components, 0) + opts.margin + 120)]

\* generateSVG: the generated <svg> has width and height of this.options
generateSVG(opts, components, connections) ==
  [components |-> components, connections |-> connections,
   width |-> opts.width, height |-> opts.height]

(***************************************************************************)
(* The process: construct one converter, then convert documents one after  *)
(* another (convertFileToCanvas: parse, generateLayout, write).            *)
(***************************************************************************)
RECURSIVE forEachString(_, _, _)
\* isolator.pvstrings.forEach from index s (1-based here); acc holds the four
\* counters
forEachString(pvstrings, s, acc) ==
  IF s > Len(pvstrings) THEN acc
  ELSE forEachString(pvstrings, s + 1,
         [acc EXCEPT !.totalPVStrings = @ + 1,
                     !.totalPanels = @ + pvstrings[s].length])

RECURSIVE forEachIsolator(_, _, _)
\* inverter.isolators.forEach from index j
forEachIsolator(isolators, j, acc) ==
  IF j > Len(isolators) THEN acc
  ELSE forEachIsolator(isolators, j + 1,
         forEachString(isolators[j].pvstrings, 1,
                       [acc EXCEPT !.totalIsolators = @ + 1]))

RECURSIVE forEachInverter(_, _, _)
\* jsonData.inverters.forEach from index i
forEachInverter(inverters, i, acc) ==
  IF i > Len(inverters) THEN acc
  ELSE forEachInverter(inverters, i + 1,
         forEachIsolator(inverters[i].isolators, 1,
                         [acc EXCEPT !.totalInverters = @ + 1]))

noCounts ==
  [totalInverters |-> 0, totalIsolators |-> 0, totalPVStrings |-> 0, totalPanels |-> 0]

\* every string counted as one panel
getSystemStats_panelPerString(jsonDoc) ==
  LET acc == forEachInverter(jsonDoc.inverters, 1, noCounts)
  IN [inverters   |-> acc.totalInverters,
      isolators   |-> acc.totalIsolators,
      pvStrings   |-> acc.totalPVStrings,
      totalPanels |-> acc.totalPVStrings]

\* getSystemStats(jsonData), the same in both versions of the converter
getSystemStats(jsonDoc) ==
  LET acc == forEachInverter(jsonDoc.inverters, 1, noCounts)
  IN [inverters   |-> acc.totalInverters,
      isolators   |-> acc.totalIsolators,
      pvStrings   |-> acc.totalPVStrings,
      totalPanels |-> acc.totalPanels]

NoData == [inverters |-> <<>>]

NoResult == [components |-> <<>>, connections |-> <<>>, width |-> 0, height |-> 0]

NoError == "none"

NoPage == [isolatorSlotLookup |-> <<>>, paths |-> <<>>]

\* the options objects the converter is constructed with: none (all defaults)
\* and a canvas smaller than any content for the canvas version, a canvas just
\* below the widest grid for the SVG version
CtorArgs(v) ==
  IF v = "canvas"
  THEN {<<>>, [width |-> 100, height |-> 100, margin |-> 40]}
  ELSE {[width |-> 1000, height |-> 1000, margin |-> 50]}

\* new SLDConverter(args) of version v
Construct(v) ==
  /\ variant = v
  /\ \E args \in CtorArgs(v) : configured = SLDConverter(args)
  /\ options = configured
  /\ symbols = initializeSymbols(v)
  /\ pc = "idle"
  /\ jsonData = NoData
  /\ result = NoResult
  /\ completed = FALSE
  /\ error = NoError
  /\ written = FALSE
  /\ page = NoPage

NoBrowser == 0

NoPdfOptions == [viewport |-> FALSE, delay |-> FALSE]

\* new HTMLToPDFConverter(), before any of its methods has run
HTMLToPDFConverter ==
  /\ browser = NoBrowser
  /\ browsers = <<>>
  /\ openPages = 0
  /\ pdfPc = "idle"
  /\ pdfError = NoError
  /\ pdfOptions = NoPdfOptions
  /\ command = "none"
  /\ process = "running"

InitCanvas == Construct("canvas") /\ HTMLToPDFConverter

InitSvg == Construct("svg") /\ HTMLToPDFConverter

Init == InitCanvas \/ InitSvg

\* const jsonData = JSON.parse(await fs.readFile(inputPath, 'utf8'))
ParseInput ==
  /\ pc = "idle"
  /\ \E d \in Inputs : jsonData' = d
  /\ pc' = "parsed"
  /\ error' = NoError
  /\ written' = FALSE
  /\ UNCHANGED <<variant, configured, options, symbols, result, completed, page>>
  /\ UNCHANGED pdfVars

\* generateLayout storing the expanded canvas in this.options, as convertToSVG does
GenerateLayout_keepsSize ==
  /\ variant = "canvas"
  /\ pc = "parsed"
  /\ IF throwsTypeError(jsonData)
     THEN pc' = "failed" /\ result' = NoResult /\ options' = options
          /\ error' = "TypeError"
     ELSE /\ pc' = "converted"
          /\ result' = generateLayout(options, symbols, jsonData)
          /\ options' = [options EXCEPT !.width = result'.width, !.height = result'.height]
          /\ error' = error
  /\ UNCHANGED <<variant, configured, symbols, jsonData, completed, written, page>>
  /\ UNCHANGED pdfVars

\* this.generateLayout(jsonData), called by convertToCanvas
GenerateLayout ==
  /\ variant = "canvas"
  /\ pc = "parsed"
  /\ IF throwsTypeError(jsonData)
     THEN pc' = "failed" /\ result' = NoResult /\ error' = "TypeError"
     ELSE /\ pc' = "converted"
          /\ result' = generateLayout(options, symbols, jsonData)
          /\ error' = error
  /\ UNCHANGED <<variant, configured, options, symbols, jsonData, completed, written, page>>
  /\ UNCHANGED pdfVars
\* a failing conversion that puts the options back to what the converter
\* was constructed with
ConvertToSVG_resetOnError ==
  /\ variant = "svg"
  /\ pc = "parsed"
  /\ IF throwsTypeError(jsonData)
     THEN pc' = "failed" /\ result' = NoResult /\ error' = "TypeError"
          /\ options' = configured
     ELSE LET layout == gridLayout(options, symbols, jsonData)
              expanded == expandedOptions(options, symbols, layout.components)
          IN /\ pc' = "converted"
             /\ options' = expanded
             /\ result' = generateSVG(expanded, layout.components, layout.connections)
             /\ error' = error
  /\ UNCHANGED <<variant, configured, symbols, jsonData, completed, written, page>>
  /\ UNCHANGED pdfVars

\* await this.convertToSVG(jsonData), called by convertFile and convertToHTML
ConvertToSVG ==
  /\ variant = "svg"
  /\ pc = "parsed"
  /\ IF throwsTypeError(jsonData)
     THEN pc' = "failed" /\ result' = NoResult /\ error' = "TypeError"
          /\ options' = options
     ELSE LET layout == gridLayout(options, symbols, jsonData)
              expanded == expandedOptions(options, symbols, layout.components)
          IN /\ pc' = "converted"
             /\ options' = expanded
             /\ result' = generateSVG(expanded, layout.components, layout.connections)
             /\ error' = error
  /\ UNCHANGED <<variant, configured, symbols, jsonData, completed, written, page>>
  /\ UNCHANGED pdfVars

\* await fs.writeFile(outputPath, ...); return
WriteOutput ==
  /\ pc = "converted"
  /\ pc' = "idle"
  /\ jsonData' = NoData
  /\ result' = NoResult
  /\ completed' = TRUE
  /\ written' = TRUE
  /\ UNCHANGED <<variant, configured, options, symbols, error, page>>
  /\ UNCHANGED pdfVars

Next == ParseInput \/ GenerateLayout \/ ConvertToSVG \/ WriteOutput

Spec == Init /\ [][Next]_vars

NextCanvas == ParseInput \/ GenerateLayout \/ WriteOutput

SpecCanvas == InitCanvas /\ [][NextCanvas]_vars

NextSvg == ParseInput \/ ConvertToSVG \/ WriteOutput

SpecSvg == InitSvg /\ [][NextSvg]_vars

\* const stats = converter.getSystemStats(jsonData)
GetSystemStats ==
  /\ pc = "parsed"
  /\ pc' = "counted"
  /\ result' = getSystemStats(jsonData)
  /\ UNCHANGED <<variant, configured, options, symbols, jsonData, completed,
                 error, written, page>>
  /\ UNCHANGED pdfVars

\* the caller prints the four counts and is done
ReportStats ==
  /\ pc = "counted"
  /\ pc' = "idle"
  /\ jsonData' = NoData
  /\ result' = NoResult
  /\ UNCHANGED <<variant, configured, options, symbols, completed, error, written, page>>
  /\ UNCHANGED pdfVars

\* conversions and statistics on one converter, in any order
NextStats == Next \/ GetSystemStats \/ ReportStats

SpecStats == Init /\ [][NextStats]_vars

(***************************************************************************)
(* The file wrappers convertFileToCanvas (canvas version), convertFile and *)
(* convertFileToHTML (SVG version), one statement of the try block or of   *)
(* the catch block per step.  The file may be missing, may hold text that  *)
(* is not JSON, or JSON that is not a SystemDescription; the output path   *)
(* may not be writable.                                                    *)
(***************************************************************************)
\* await fs.readFile(inputPath, 'utf8') returned the text
ReadFile ==
  /\ pc = "idle"
  /\ pc' = "read"
  /\ error' = NoError
  /\ written' = FALSE
  /\ UNCHANGED <<variant, configured, options, symbols, jsonData, result, completed, page>>
  /\ UNCHANGED pdfVars

\* await fs.readFile(inputPath, 'utf8') rejected
ReadFails ==
  /\ pc = "idle"
  /\ pc' = "failed"
  /\ error' = "ENOENT"
  /\ written' = FALSE
  /\ UNCHANGED <<variant, configured, options, symbols, jsonData, result, completed, page>>
  /\ UNCHANGED pdfVars

\* JSON.parse returned a document
ParseJSON ==
  /\ pc = "read"
  /\ \E d \in LooseInputs : jsonData' = d
  /\ pc' = "parsed"
  /\ UNCHANGED <<variant, configured, options, symbols, result, completed,
                 error, written, page>>
  /\ UNCHANGED pdfVars

\* JSON.parse threw
ParseFails ==
  /\ pc = "read"
  /\ pc' = "failed"
  /\ error' = "SyntaxError"
  /\ UNCHANGED <<variant, configured, options, symbols, jsonData, result, completed,
                 written, page>>
  /\ UNCHANGED pdfVars

\* await fs.writeFile(outputPath, ...) rejected
WriteFails ==
  /\ pc = "converted"
  /\ pc' = "failed"
  /\ error' = "EACCES"
  /\ result' = NoResult
  /\ UNCHANGED <<variant, configured, options, symbols, jsonData, completed, written, page>>
  /\ UNCHANGED pdfVars

\* catch (error) { console.error(...)
LogError ==
  /\ pc = "failed"
  /\ pc' = "logged"
  /\ UNCHANGED <<variant, configured, options, symbols, jsonData, result, completed,
                 error, written, page>>
  /\ UNCHANGED pdfVars

\* the error swallowed after logging
Rethrow_swallowed ==
  /\ pc = "logged"
  /\ pc' = "idle"
  /\ jsonData' = NoData
  /\ error' = NoError
  /\ UNCHANGED <<variant, configured, options, symbols, result, completed, written, page>>
  /\ UNCHANGED pdfVars

\* throw error; }: the call ends and its caller holds the error
Rethrow ==
  /\ pc = "logged"
  /\ pc' = "idle"
  /\ jsonData' = NoData
  /\ UNCHANGED <<variant, configured, options, symbols, result, completed,
                 error, written, page>>
  /\ UNCHANGED pdfVars

NextFiles ==
  \/ ReadFile \/ ReadFails \/ ParseJSON \/ ParseFails
  \/ GenerateLayout \/ ConvertToSVG
  \/ WriteOutput \/ WriteFails
  \/ LogError \/ Rethrow

SpecFiles == Init /\ [][NextFiles]_vars

(***************************************************************************)
(* The script of the page that convertToCanvas returns, run by a browser   *)
(* that loads the page: it starts by building isolatorSlotLookup from the  *)
(* components embedded in the page.                                        *)
(***************************************************************************)
NumberTokens == {Str(n) : n \in 0..MaxNodes}

\* the isolator index taken for the inverter index: split('_')[2]
inverterIndexOf_isolatorToken(id) ==
  (CHOOSE t \in {"isolator"} \X NumberTokens \X NumberTokens :
      t[1] \o "_" \o t[2] \o "_" \o t[3] = id)[3]

\* comp.id.split('_')[1] of an isolator: the identifier is cut at its
\* underscores into the tokens that joined by "_" give it back, and the
\* second token is taken
inverterIndexOf(id) ==
  (CHOOSE t \in {"isolator"} \X NumberTokens \X NumberTokens :
      t[1] \o "_" \o t[2] \o "_" \o t[3] = id)[2]

\* inverterIsolatorMap[invIndex]: the isolators pushed under one key, in the
\* order of the component list
inverterIsolatorMap(components, invIndex) ==
  SelectSeq(components, LAMBDA c : c.type = "isolator" /\ inverterIndexOf(c.id) = invIndex)

\* one step of the stable sort by y: c goes behind every element whose y is
\* not greater
insertByY(sorted, c) ==
  LET k == Cardinality({n \in DOMAIN sorted : sorted[n].y <= c.y})
  IN SubSeq(sorted, 1, k) \o <<c>> \o SubSeq(sorted, k + 1, Len(sorted))

RECURSIVE sortByY(_)
\* isolators.sort((a, b) => a.y - b.y)
sortByY(isolators) ==
  IF isolators = <<>> THEN <<>>
  ELSE insertByY(sortByY(SubSeq(isolators, 1, Len(isolators) - 1)),
                 isolators[Len(isolators)])

\* isolatorSlotLookup once both forEach loops have run
isolatorSlotLookup(components) ==
  LET ids == {c.id : c \in {d \in {components[n] : n \in DOMAIN components} :
                              d.type = "isolator"}}
  IN [id \in ids |->
        LET invIndex == inverterIndexOf(id)
            isolators == sortByY(inverterIsolatorMap(components, invIndex))
            place == CHOOSE n \in DOMAIN isolators :
                       /\ isolators[n].id = id
                       /\ \A m \in DOMAIN isolators : isolators[m].id = id => m <= n
        IN [inverterIndex |-> invIndex,
            slotIndex     |-> place - 1,
            totalSlots    |-> Len(isolators)]]

\* A coordinate of the canvas is a JavaScript number; the quotient
\* availableHeight / (totalConnections - 1) need not be whole, so a number
\* is kept as the exact fraction num / den with den > 0.
Rat(n) == [num |-> n, den |-> 1]

RatLess(a, b) == a.num * b.den < b.num * a.den

RatEq(a, b) == a.num * b.den = b.num * a.den

RatSub(a, b) == [num |-> (a.num * b.den) - (b.num * a.den), den |-> a.den * b.den]

\* clamp = (value, min, max) => Math.max(min, Math.min(max, value))
clamp(value, min, max) ==
  LET inner == IF RatLess(max, value) THEN max ELSE value
  IN IF RatLess(inner, min) THEN min ELSE inner

\* the polarity left out of the connection index
getInverterConnectionY_noPolarity(syms, inverterComp, slotInfo, polarity) ==
  LET inverterHeight == syms[inverterComp.type].height
      margin == 10
      totalSlots == Max(1, IF slotInfo.totalSlots = 0 THEN 1 ELSE slotInfo.totalSlots)
      totalConnections == totalSlots * 2
      connectionIndex == slotInfo.slotIndex * 2
      availableHeight == Max(0, inverterHeight - (margin * 2))
  IN IF totalConnections <= 1
     THEN [num |-> (2 * inverterComp.y) + inverterHeight, den |-> 2]
     ELSE clamp([num |-> ((inverterComp.y + margin) * (totalConnections - 1))
                           + (availableHeight * connectionIndex),
                 den |-> totalConnections - 1],
                Rat(inverterComp.y + 4),
                Rat((inverterComp.y + inverterHeight) - 4))

\* getInverterConnectionY(inverterComp, slotInfo, polarity):
\* y + margin + step * connectionIndex with step = availableHeight /
\* (totalConnections - 1), clamped into the inverter body
getInverterConnectionY(syms, inverterComp, slotInfo, polarity) ==
  LET inverterHeight == syms[inverterComp.type].height
      margin == 10
      totalSlots == Max(1, IF slotInfo.totalSlots = 0 THEN 1 ELSE slotInfo.totalSlots)
      totalConnections == totalSlots * 2
      connectionIndex == (slotInfo.slotIndex * 2) + (IF polarity = "positive" THEN 0 ELSE 1)
      availableHeight == Max(0, inverterHeight - (margin * 2))
  IN IF totalConnections <= 1
     THEN [num |-> (2 * inverterComp.y) + inverterHeight, den |-> 2]
     ELSE clamp([num |-> ((inverterComp.y + margin) * (totalConnections - 1))
                           + (availableHeight * connectionIndex),
                 den |-> totalConnections - 1],
                Rat(inverterComp.y + 4),
                Rat((inverterComp.y + inverterHeight) - 4))

\* isolatorSlotLookup[id] || { slotIndex: 0, totalSlots: 1 }
slotInfoOf(lookup, id) ==
  IF id \in DOMAIN lookup THEN lookup[id] ELSE [slotIndex |-> 0, totalSlots |-> 1]

\* laneX of the inverter -> isolator run
positiveLaneX(syms, fromComp, toComp, slotInfo) ==
  LET endX == toComp.x
      startX == fromComp.x + syms[fromComp.type].width
      baseOffset == 28
      laneSpacing == 32
      maxLaneX == endX - 20
  IN Min(startX + baseOffset + (slotInfo.slotIndex * laneSpacing), maxLaneX)

\* the lane of the return taken with the offsets of the positive run
negativeLaneX_asPositive(syms, toComp, slotInfo) ==
  LET endX == toComp.x + syms[toComp.type].width
      baseOffset == 28
      laneSpacing == 32
  IN endX + baseOffset + (slotInfo.slotIndex * laneSpacing)

\* laneX of the isolator -> inverter return
negativeLaneX(syms, toComp, slotInfo) ==
  LET endX == toComp.x + syms[toComp.type].width
      baseOffset == 60
      laneSpacing == 36
  IN endX + baseOffset + (slotInfo.slotIndex * laneSpacing)

\* whether components.find(c => c.id === id) finds a component
found(components, id) == \E n \in DOMAIN components : components[n].id = id

\* components.find(c => c.id === id): the first component with the id
find(components, id) ==
  components[CHOOSE n \in DOMAIN components :
               /\ components[n].id = id
               /\ \A m \in 1..(n - 1) : components[m].id # id]

Point(x, y) == [x |-> x, y |-> y]

\* the body of connections.forEach: the points of the line stroked for one
\* connection, none when an end is not found or the type is not drawn
drawConnection(components, syms, lookup, conn) ==
  IF ~(found(components, conn.from) /\ found(components, conn.to)) THEN <<>>
  ELSE
    LET fromComp == find(components, conn.from)
        toComp == find(components, conn.to)
        fromSymbol == syms[fromComp.type]
        toSymbol == syms[toComp.type]
    IN IF conn.type = "daisy_positive"
       THEN LET endX == toComp.x
                endY == toComp.y + (toSymbol.height \div 4)
            IN IF fromComp.type = "isolator"
               THEN LET startX == fromComp.x + fromSymbol.width
                        startY == fromComp.y + (fromSymbol.height \div 4)
                        midX == Max(endX - 40, startX + 10)
                    IN <<Point(startX, Rat(startY)), Point(midX, Rat(startY)),
                         Point(midX, Rat(endY)), Point(endX, Rat(endY))>>
               ELSE IF fromComp.type = "inverter"
               THEN LET slotInfo == slotInfoOf(lookup, toComp.id)
                        startY == getInverterConnectionY(syms, fromComp, slotInfo, "positive")
                        startX == fromComp.x + fromSymbol.width
                        laneX == positiveLaneX(syms, fromComp, toComp, slotInfo)
                        isolatorConnectionY == toComp.y + (toSymbol.height \div 4)
                    IN <<Point(startX, startY), Point(laneX, startY),
                         Point(laneX, Rat(isolatorConnectionY)),
                         Point(endX, Rat(isolatorConnectionY))>>
               ELSE LET startX == fromComp.x + fromSymbol.width
                        startY == fromComp.y + (fromSymbol.height \div 4)
                    IN <<Point(startX, Rat(startY)), Point(endX, Rat(endY))>>
       ELSE IF conn.type = "daisy_negative_return"
       THEN IF fromComp.type = "isolator" /\ toComp.type = "inverter"
            THEN LET slotInfo == slotInfoOf(lookup, fromComp.id)
                     endX == toComp.x + toSymbol.width
                     endY == getInverterConnectionY(syms, toComp, slotInfo, "negative")
                     startX == fromComp.x + fromSymbol.width
                     isolatorConnectionY == fromComp.y + ((fromSymbol.height * 3) \div 4)
                     laneX == negativeLaneX(syms, toComp, slotInfo)
                 IN <<Point(startX, Rat(isolatorConnectionY)),
                      Point(laneX, Rat(isolatorConnectionY)),
                      Point(laneX, endY), Point(endX, endY)>>
            ELSE LET startX == fromComp.x + fromSymbol.width
                     startY == fromComp.y + ((fromSymbol.height * 3) \div 4)
                     endX == toComp.x + toSymbol.width
                     endY == toComp.y + ((toSymbol.height * 3) \div 4)
                     jog == 15
                     dropOffset == 25
                 IN <<Point(startX, Rat(startY)), Point(startX + jog, Rat(startY)),
                      Point(startX + jog, Rat(startY + dropOffset)),
                      Point(endX + jog, Rat(startY + dropOffset)),
                      Point(endX + jog, Rat(endY)), Point(endX, Rat(endY))>>
       ELSE <<>>

\* the browser has loaded the page and run its script down to the drawing of
\* the connections
RunScript ==
  /\ variant = "canvas"
  /\ pc = "converted"
  /\ pc' = "rendered"
  /\ page' = [isolatorSlotLookup |-> isolatorSlotLookup(result.components),
              paths |-> [n \in DOMAIN result.connections |->
                           drawConnection(result.components, symbols,
                                          isolatorSlotLookup(result.components),
                                          result.connections[n])]]
  /\ UNCHANGED <<variant, configured, options, symbols, jsonData, result, completed,
                 error, written>>
  /\ UNCHANGED pdfVars

\* the page is closed
ClosePage ==
  /\ pc = "rendered"
  /\ pc' = "idle"
  /\ jsonData' = NoData
  /\ result' = NoResult
  /\ page' = NoPage
  /\ UNCHANGED <<variant, configured, options, symbols, completed, error, written>>
  /\ UNCHANGED pdfVars

NextPage == NextCanvas \/ RunScript \/ ClosePage

SpecPage == InitCanvas /\ [][NextPage]_vars

(***************************************************************************)
(* The HTML to PDF converter and its command line.                         *)
(***************************************************************************)

\* how many browsers one process launches at most
MaxBrowsers == 3

\* --viewport and --delay of the convert command ('0', its default, is no
\* delay after parseInt); the same two options of a convertHTMLToPDF call
PdfOptionSets == [viewport : BOOLEAN, delay : BOOLEAN]

\* the url command has no viewport, and its delay is a string, '2000' by
\* default, which the test of options.delay finds true whatever its digits
UrlOptions == [viewport |-> FALSE, delay |-> TRUE]

\* puppeteer.launch resolves with a new browser or rejects
LaunchOutcomes == IF Len(browsers) < MaxBrowsers THEN {"ok", "fail"} ELSE {"fail"}

\* this.browser = await puppeteer.launch(...)
launch ==
  /\ browsers' = Append(browsers, "live")
  /\ browser' = Len(browsers) + 1

\* where control goes when convertHTMLToPDF ends with error err: back to the
\* program that called it, or through convertFileToPDF (whose catch logs and
\* rethrows) into the try statement of the convert command
Returned(err) ==
  IF command = "convert"
  THEN IF err = NoError THEN "commandFinally" ELSE "commandCatch"
  ELSE "idle"

\* what an awaited call on the page can do: resolve or reject, and only
\* resolve when the options leave the call out
Outcomes(wanted) == IF wanted THEN {"ok", "fail"} ELSE {"ok"}

\* an awaited call inside a try block: control goes on to next, or to the
\* catch block with the error the call rejected with
Await(outcome, next, catch, err) ==
  IF outcome = "ok"
  THEN pdfPc' = next /\ pdfError' = pdfError
  ELSE pdfPc' = catch /\ pdfError' = err

\* await converter.initialize(), called by a program that requires the class
Initialize ==
  /\ pdfPc = "idle"
  /\ command = "none"
  /\ \E outcome \in LaunchOutcomes :
       IF outcome = "ok"
       THEN launch /\ pdfError' = NoError
       ELSE pdfError' = "LaunchError" /\ UNCHANGED <<browser, browsers>>
  /\ UNCHANGED <<openPages, pdfPc, pdfOptions, command, process>>
  /\ UNCHANGED sldVars

\* if (this.browser) await this.browser.close(): this.browser keeps its value
close ==
  /\ browsers' = IF browser # NoBrowser
                 THEN [browsers EXCEPT ![browser] = "closed"]
                 ELSE browsers
  /\ openPages' = IF browser # NoBrowser THEN 0 ELSE openPages
  /\ browser' = browser

\* await converter.close(), called by a program that requires the class
Close ==
  /\ pdfPc = "idle"
  /\ command = "none"
  /\ close
  /\ pdfError' = NoError
  /\ UNCHANGED <<pdfPc, pdfOptions, command, process>>
  /\ UNCHANGED sldVars

\* await converter.convertHTMLToPDF(html, output, options), called by a
\* program that requires the class
CallConvertHTMLToPDF ==
  /\ pdfPc = "idle"
  /\ command = "none"
  /\ \E o \in PdfOptionSets : pdfOptions' = o
  /\ pdfPc' = "convertHTMLToPDF"
  /\ pdfError' = NoError
  /\ UNCHANGED <<browser, browsers, openPages, command, process>>
  /\ UNCHANGED sldVars

\* if (!this.browser) await this.initialize()
ConvertHTMLToPDF ==
  /\ pdfPc = "convertHTMLToPDF"
  /\ IF browser = NoBrowser
     THEN \E outcome \in LaunchOutcomes :
            IF outcome = "ok"
            THEN launch /\ pdfPc' = "newPage" /\ pdfError' = pdfError
            ELSE /\ pdfError' = "LaunchError"
                 /\ pdfPc' = Returned("LaunchError")
                 /\ UNCHANGED <<browser, browsers>>
     ELSE pdfPc' = "newPage" /\ UNCHANGED <<browser, browsers, pdfError>>
  /\ UNCHANGED <<openPages, pdfOptions, command, process>>
  /\ UNCHANGED sldVars

\* const page = await this.browser.newPage(), before the try block: a closed
\* browser rejects the call
NewPage ==
  /\ pdfPc = "newPage"
  /\ IF browsers[browser] = "live"
     THEN /\ openPages' = openPages + 1
          /\ pdfPc' = "setViewport"
          /\ pdfError' = pdfError
     ELSE /\ openPages' = openPages
          /\ pdfError' = "TargetCloseError"
          /\ pdfPc' = Returned("TargetCloseError")
  /\ UNCHANGED <<browser, browsers, pdfOptions, command, process>>
  /\ UNCHANGED sldVars

\* if (options.viewport) await page.setViewport(options.viewport)
SetViewport ==
  /\ pdfPc = "setViewport"
  /\ \E outcome \in Outcomes(pdfOptions.viewport) : Await(outcome, "setContent", "catch", "ViewportError")
  /\ UNCHANGED <<browser, browsers, openPages, pdfOptions, command, process>>
  /\ UNCHANGED sldVars

\* await page.setContent(html, ...)
SetContent ==
  /\ pdfPc = "setContent"
  /\ \E outcome \in Outcomes(TRUE) : Await(outcome, "waitForTimeout", "catch", "ContentError")
  /\ UNCHANGED <<browser, browsers, openPages, pdfOptions, command, process>>
  /\ UNCHANGED sldVars

\* if (options.delay) await page.waitForTimeout(options.delay)
WaitForTimeout ==
  /\ pdfPc = "waitForTimeout"
  /\ \E outcome \in Outcomes(pdfOptions.delay) : Await(outcome, "pdf", "catch", "DelayError")
  /\ UNCHANGED <<browser, browsers, openPages, pdfOptions, command, process>>
  /\ UNCHANGED sldVars

\* const pdfBuffer = await page.pdf(pdfOptions); return pdfBuffer
Pdf ==
  /\ pdfPc = "pdf"
  /\ \E outcome \in Outcomes(TRUE) : Await(outcome, "finally", "catch", "PdfError")
  /\ UNCHANGED <<browser, browsers, openPages, pdfOptions, command, process>>
  /\ UNCHANGED sldVars

\* catch (error) { console.error(...); throw error; }
CatchError ==
  /\ pdfPc = "catch"
  /\ pdfPc' = "finally"
  /\ UNCHANGED <<browser, browsers, openPages, pdfError, pdfOptions, command, process>>
  /\ UNCHANGED sldVars

\* a convertHTMLToPDF that closes its page at the end of the try block
FinallyClosePage_endOfTry ==
  /\ pdfPc = "finally"
  /\ openPages' = IF pdfError = NoError THEN openPages - 1 ELSE openPages
  /\ pdfPc' = Returned(pdfError)
  /\ UNCHANGED <<browser, browsers, pdfError, pdfOptions, command, process>>
  /\ UNCHANGED sldVars

\* finally { await page.close(); }, after which the call returns the buffer
\* or throws the error the catch block rethrew
FinallyClosePage ==
  /\ pdfPc = "finally"
  /\ openPages' = openPages - 1
  /\ pdfPc' = Returned(pdfError)
  /\ UNCHANGED <<browser, browsers, pdfError, pdfOptions, command, process>>
  /\ UNCHANGED sldVars

\* the action of the convert or of the url command starts: new
\* HTMLToPDFConverter(), then the try block
RunCommand ==
  /\ pdfPc = "idle"
  /\ command = "none"
  /\ browser = NoBrowser
  /\ browsers = <<>>
  /\ pdfError = NoError
  /\ \E c \in {"convert", "url"} :
       /\ command' = c
       /\ IF c = "convert"
          THEN pdfPc' = "readFile" /\ \E o \in PdfOptionSets : pdfOptions' = o
          ELSE pdfPc' = "urlInitialize" /\ pdfOptions' = UrlOptions
  /\ UNCHANGED <<browser, browsers, openPages, pdfError, process>>
  /\ UNCHANGED sldVars

\* convertFileToPDF up to its call of convertHTMLToPDF: fs.readFile and
\* resolveAssetPaths; its catch block logs and rethrows
ConvertFileToPDF ==
  /\ pdfPc = "readFile"
  /\ \E outcome \in {"ok", "fail"} :
       IF outcome = "ok"
       THEN pdfPc' = "convertHTMLToPDF" /\ pdfError' = pdfError
       ELSE pdfPc' = "commandCatch" /\ pdfError' = "ENOENT"
  /\ UNCHANGED <<browser, browsers, openPages, pdfOptions, command, process>>
  /\ UNCHANGED sldVars

\* url command: await converter.initialize()
UrlInitialize ==
  /\ pdfPc = "urlInitialize"
  /\ \E outcome \in LaunchOutcomes :
       IF outcome = "ok"
       THEN launch /\ pdfPc' = "urlNewPage" /\ pdfError' = pdfError
       ELSE /\ pdfPc' = "commandCatch" /\ pdfError' = "LaunchError"
            /\ UNCHANGED <<browser, browsers>>
  /\ UNCHANGED <<openPages, pdfOptions, command, process>>
  /\ UNCHANGED sldVars

\* url command: const page = await converter.browser.newPage()
UrlNewPage ==
  /\ pdfPc = "urlNewPage"
  /\ \E outcome \in {"ok", "fail"} :
       IF outcome = "ok"
       THEN pdfPc' = "goto" /\ openPages' = openPages + 1 /\ pdfError' = pdfError
       ELSE pdfPc' = "commandCatch" /\ openPages' = openPages
            /\ pdfError' = "NewPageError"
  /\ UNCHANGED <<browser, browsers, pdfOptions, command, process>>
  /\ UNCHANGED sldVars

\* await page.goto(url, ...)
UrlGoto ==
  /\ pdfPc = "goto"
  /\ \E outcome \in Outcomes(TRUE) : Await(outcome, "urlWait", "commandCatch", "NavigationError")
  /\ UNCHANGED <<browser, browsers, openPages, pdfOptions, command, process>>
  /\ UNCHANGED sldVars

\* if (options.delay) await page.waitForTimeout(parseInt(options.delay))
UrlWait ==
  /\ pdfPc = "urlWait"
  /\ \E outcome \in Outcomes(pdfOptions.delay) : Await(outcome, "urlPdf", "commandCatch", "DelayError")
  /\ UNCHANGED <<browser, browsers, openPages, pdfOptions, command, process>>
  /\ UNCHANGED sldVars

\* await page.pdf({path: output, ...pdfOptions})
UrlPdf ==
  /\ pdfPc = "urlPdf"
  /\ \E outcome \in Outcomes(TRUE) : Await(outcome, "commandFinally", "commandCatch", "PdfError")
  /\ UNCHANGED <<browser, browsers, openPages, pdfOptions, command, process>>
  /\ UNCHANGED sldVars

\* catch (error) { console.error(...); process.exit(1); } of either command:
\* process.exit ends the process there, and the finally block never runs
CommandFails ==
  /\ pdfPc = "commandCatch"
  /\ process' = "exited"
  /\ pdfPc' = "done"
  /\ UNCHANGED <<browser, browsers, openPages, pdfError, pdfOptions, command>>
  /\ UNCHANGED sldVars

\* finally { await converter.close(); } of either command when the try block
\* completed, after which the process ends
CommandCloses ==
  /\ pdfPc = "commandFinally"
  /\ close
  /\ process' = "ended"
  /\ pdfPc' = "done"
  /\ UNCHANGED <<pdfError, pdfOptions, command>>
  /\ UNCHANGED sldVars

NextPdf ==
  \/ Initialize
  \/ Close
  \/ CallConvertHTMLToPDF
  \/ ConvertHTMLToPDF
  \/ NewPage
  \/ SetViewport
  \/ SetContent
  \/ WaitForTimeout
  \/ Pdf
  \/ CatchError
  \/ FinallyClosePage
  \/ RunCommand
  \/ ConvertFileToPDF
  \/ UrlInitialize
  \/ UrlNewPage
  \/ UrlGoto
  \/ UrlWait
  \/ UrlPdf
  \/ CommandFails
  \/ CommandCloses

SpecPdf == InitCanvas /\ [][NextPdf]_vars

(***************************************************************************)
(* Properties.                                                             *)
(***************************************************************************)
Range(f) == {f[n] : n \in DOMAIN f}

\* a layout has been returned by generateLayout (canvas version)
LaidOut == variant = "canvas" /\ pc = "converted"

\* a layout has been built by convertToSVG (SVG version)
Drawn == variant = "svg" /\ pc = "converted"

\* the box of a component: position and symbol footprint
Box(c) == [left   |-> c.x, right  |-> c.x + footprintWidth(symbols, c),
           top    |-> c.y, bottom |-> c.y + footprintHeight(symbols, c)]

\* two boxes share a point
Intersect(a, b) ==
  /\ a.left <= b.right /\ b.left <= a.right
  /\ a.top <= b.bottom /\ b.top <= a.bottom
\* C1: no two components returned by generateLayout have intersecting boxes
C1_NonOverlap ==
  LaidOut =>
    \A m, n \in DOMAIN result.components :
      m # n => ~Intersect(Box(result.components[m]), Box(result.components[n]))

\* two inverters, and a string of at least two panels, have been laid out
C1_Witness ==
  /\ LaidOut
  /\ Len(jsonData.inverters) >= 2
  /\ \E m, n \in DOMAIN result.components :
        /\ m # n
        /\ result.components[m].type = "pvString"
        /\ result.components[n].type = "pvString"
        /\ result.components[m].y = result.components[n].y

\* C2: the returned width and height enclose every component plus the margin
C2_Containment ==
  LaidOut =>
    \A c \in Range(result.components) :
      /\ result.width >= c.x + footprintWidth(symbols, c) + options.margin
      /\ result.height >= c.y + footprintHeight(symbols, c) + options.margin

\* the content made the canvas wider and higher than configured
C2_Witness ==
  /\ LaidOut
  /\ result.width > configured.width
  /\ result.height > configured.height

\* C3: every connection's from and to is the id of a component of the same pass
C3_ReferentialIntegrity ==
  pc = "converted" =>
    LET ids == {c.id : c \in Range(result.components)}
    IN \A conn \in Range(result.connections) : conn.from \in ids /\ conn.to \in ids

\* the SVG version has connected a string of a second isolator
C3_Witness ==
  /\ Drawn
  /\ \E conn \in Range(result.connections) :
        conn.type = "pv_connection" /\ conn.to = isolatorId(0, 1)

\* C4: no two components of one generateLayout result share an id
C4_UniqueIds ==
  LaidOut =>
    \A m, n \in DOMAIN result.components :
      m # n => result.components[m].id # result.components[n].id

\* two strings of one isolator both have panels
C4_Witness ==
  /\ LaidOut
  /\ \E c, d \in Range(result.components) :
        c.id = panelId(0, 0, 0, 0) /\ d.id = panelId(0, 0, 1, 0)

\* C5: generateLayout leaves options and symbols as constructed, so what a call
\* returns is what a fresh converter returns for the same input, whatever
\* the converter did before
C5_Pure ==
  variant = "canvas" =>
    /\ options = configured
    /\ symbols = initializeSymbols("canvas")
    /\ (pc = "converted" =>
          result = generateLayout(configured, initializeSymbols("canvas"), jsonData))

\* a layout returned by a converter that has served a conversion before
C5_Witness == LaidOut /\ completed /\ Len(result.components) > 0

\* what convertToSVG returns for a document on a freshly constructed converter
FreshSVG(data) ==
  LET layout == gridLayout(configured, symbols, data)
  IN generateSVG(expandedOptions(configured, symbols, layout.components),
                 layout.components, layout.connections)

\* C6: the SVG width and height for an input depend only on the input and the
\* options the converter was constructed with
C6_NoRetainedState ==
  Drawn =>
    /\ result.width = FreshSVG(jsonData).width
    /\ result.height = FreshSVG(jsonData).height

OneInverterOneIsolatorNoStrings ==
  [inverters |-> <<[isolators |-> <<[pvstrings |-> <<>>]>>]>>]

\* C7: the returned width and height are at least the configured ones
C7_MinimumSize ==
  LaidOut => result.width >= options.width /\ result.height >= options.height

\* one inverter with one isolator and no strings has been laid out on the
\* configured canvas
C7_Witness ==
  /\ LaidOut
  /\ jsonData = OneInverterOneIsolatorNoStrings
  /\ result.width = configured.width
  /\ result.height = configured.height

\* positions of the input tree, by the source's 0-based indices
InverterPositions(data) == 0..(Len(data.inverters) - 1)

IsolatorPositions(data) ==
  UNION {{<<i, j>> : j \in 0..(Len(data.inverters[i + 1].isolators) - 1)} :
         i \in InverterPositions(data)}

IsolatorAt(data, t) == data.inverters[t[1] + 1].isolators[t[2] + 1]

StringPositions(data) ==
  UNION {{<<t[1], t[2], s>> : s \in 0..(Len(IsolatorAt(data, t).pvstrings) - 1)} :
         t \in IsolatorPositions(data)}

StringAt(data, t) == IsolatorAt(data, t).pvstrings[t[3] + 1]

PanelPositions(data) ==
  UNION {{<<t[1], t[2], t[3], q>> : q \in 0..(StringAt(data, t).length - 1)} :
         t \in StringPositions(data)}

\* what C8 says of the level below an empty sequence, and of raising
NothingBelowEmpty ==
  LET ids == {c.id : c \in Range(result.components)}
  IN /\ pc # "failed"
     /\ \A i \in InverterPositions(jsonData) :
          jsonData.inverters[i + 1].isolators = <<>> =>
            \A j, k, q \in 0..MaxNodes :
              isolatorId(i, j) \notin ids /\ panelId(i, j, k, q) \notin ids
     /\ \A t \in IsolatorPositions(jsonData) :
          IsolatorAt(jsonData, t).pvstrings = <<>> =>
            \A k, q \in 0..MaxNodes : panelId(t[1], t[2], k, q) \notin ids

\* C8 (as claimed): empty sequences raise nothing and contribute no component
\* of the level below; an empty inverters list gives no components, no
\* connections and exactly the configured width and height
C8_EmptySequences_Original ==
  (variant = "canvas" /\ pc \in {"converted", "failed"}) =>
    /\ NothingBelowEmpty
    /\ jsonData.inverters = <<>> =>
         result = [components |-> <<>>, connections |-> <<>>,
                   width |-> options.width, height |-> options.height]

\* C8 (amended): as claimed, but for an empty inverters list the width is the
\* larger of the configured width and margin + 80, the height the larger of
\* the configured height and margin + 120
C8_EmptySequences ==
  (variant = "canvas" /\ pc \in {"converted", "failed"}) =>
    /\ NothingBelowEmpty
    /\ jsonData.inverters = <<>> =>
         result = [components |-> <<>>, connections |-> <<>>,
                   width  |-> IF options.width >= options.margin + 80
                              THEN options.width ELSE options.margin + 80,
                   height |-> IF options.height >= options.margin + 120
                              THEN options.height ELSE options.margin + 120]

\* an empty inverters list has been laid out on a canvas configured smaller
\* than margin and padding
C8_Witness ==
  /\ LaidOut
  /\ jsonData.inverters = <<>>
  /\ options.width < options.margin + 80

\* C9: one inverter component per inverter, one isolator component per
\* isolator, `length` pvString components per string, and nothing else
C9_ComponentCounts ==
  LaidOut =>
    LET comps == result.components
        OfType(ty) == {n \in DOMAIN comps : comps[n].type = ty}
    IN /\ Cardinality(OfType("inverter")) = Len(jsonData.inverters)
       /\ Cardinality(OfType("isolator")) = Cardinality(IsolatorPositions(jsonData))
       /\ Cardinality(OfType("pvString")) = Cardinality(PanelPositions(jsonData))
       /\ \A t \in StringPositions(jsonData) :
            Cardinality({n \in OfType("pvString") :
                           \E q \in 0..MaxNodes :
                             comps[n].id = panelId(t[1], t[2], t[3], q)})
              = StringAt(jsonData, t).length
       /\ Len(comps) = Len(jsonData.inverters) + Cardinality(IsolatorPositions(jsonData))
                          + Cardinality(PanelPositions(jsonData))

SingleStringOfThree ==
  [inverters |-> <<[isolators |-> <<[pvstrings |-> <<[model |-> "X", length |-> 3]>>]>>]>>]

\* a single string of length 3 gave 1 inverter, 1 isolator and 3 panels
C9_Witness ==
  /\ LaidOut
  /\ jsonData = SingleStringOfThree
  /\ [n \in DOMAIN result.components |-> result.components[n].type]
       = <<"inverter", "isolator", "pvString", "pvString", "pvString">>

\* C10: panel 0 of a string of model M and length n carries "M (n panels)",
\* the panels 1..n-1 of the string carry the empty label
C10_PanelLabels ==
  LaidOut =>
    \A t \in PanelPositions(jsonData) :
      LET pvString == StringAt(jsonData, t)
          expected == IF t[4] = 0
                      THEN pvString.model \o " (" \o ToString(pvString.length) \o " panels)"
                      ELSE ""
      IN /\ \E c \in Range(result.components) : c.id = panelId(t[1], t[2], t[3], t[4])
         /\ \A c \in Range(result.components) :
              c.id = panelId(t[1], t[2], t[3], t[4]) => c.label = expected

\* the three panels of a string of model X carry "X (3 panels)", "" and ""
C10_Witness ==
  /\ LaidOut
  /\ jsonData = SingleStringOfThree
  /\ result.components[3].label = "X (3 panels)"
  /\ result.components[4].label = ""
  /\ result.components[5].label = ""

\* how many connections of the result run from f to t with type ty
Edges(f, t, ty) ==
  Cardinality({n \in DOMAIN result.connections :
                 result.connections[n] = [from |-> f, to |-> t, type |-> ty]})

\* the connections of the result that start or end at a panel of string t
Touching(t) ==
  {n \in DOMAIN result.connections :
     \E q \in 0..MaxNodes :
        \/ result.connections[n].from = panelId(t[1], t[2], t[3], q)
        \/ result.connections[n].to = panelId(t[1], t[2], t[3], q)}

\* C11: a string of n >= 1 panels is wired by one daisy_positive edge from its
\* isolator to panel 0, one daisy_positive edge from each panel p to panel
\* p + 1, and one daisy_negative_return edge from panel n - 1 to the isolator,
\* and by nothing else; a string of no panels adds no connection
C11_StringWiring ==
  LaidOut =>
    /\ \A t \in StringPositions(jsonData) :
         LET n == StringAt(jsonData, t).length
             iso == isolatorId(t[1], t[2])
             P(p) == panelId(t[1], t[2], t[3], p)
         IN IF n = 0
            THEN Touching(t) = {}
            ELSE /\ Edges(iso, P(0), "daisy_positive") = 1
                 /\ \A p \in 0..(n - 2) : Edges(P(p), P(p + 1), "daisy_positive") = 1
                 /\ Edges(P(n - 1), iso, "daisy_negative_return") = 1
                 /\ Cardinality(Touching(t)) = n + 1
                 /\ \A m \in Touching(t) :
                      result.connections[m].type = "daisy_negative_return" =>
                        /\ result.connections[m].from = P(n - 1)
                        /\ result.connections[m].to = iso
    /\ Len(result.connections) =
         (2 * Cardinality(IsolatorPositions(jsonData)))
           + Cardinality(PanelPositions(jsonData))
           + Cardinality({t \in StringPositions(jsonData) : StringAt(jsonData, t).length > 0})

StringOfThreeAndEmptyString ==
  [inverters |-> <<[isolators |-> <<[pvstrings |->
     <<[model |-> "X", length |-> 3], [model |-> "X", length |-> 0]>>]>>]>>]

\* an isolator with a string of three panels and a string of none has been
\* wired: the last of its six connections is the return edge from panel 2
C11_Witness ==
  /\ LaidOut
  /\ jsonData = StringOfThreeAndEmptyString
  /\ Len(result.connections) = 6
  /\ result.connections[3] = [from |-> isolatorId(0, 0), to |-> panelId(0, 0, 0, 0),
                              type |-> "daisy_positive"]
  /\ result.connections[6] = [from |-> panelId(0, 0, 0, 2), to |-> isolatorId(0, 0),
                              type |-> "daisy_negative_return"]

\* the home run of every isolator as two edges that both leave the isolator
\* for its inverter
C12_IsolatorHomeRun_Original ==
  LaidOut =>
    \A t \in IsolatorPositions(jsonData) :
      /\ Edges(isolatorId(t[1], t[2]), inverterId(t[1]), "daisy_positive") >= 1
      /\ Edges(isolatorId(t[1], t[2]), inverterId(t[1]), "daisy_negative_return") >= 1

\* C12: for every isolator j of inverter i the connection list holds exactly
\* one daisy_positive edge from inverter_i to isolator_i_j and exactly one
\* daisy_negative_return edge from isolator_i_j to inverter_i, and no other
\* edge between the two
C12_IsolatorHomeRun ==
  LaidOut =>
    \A t \in IsolatorPositions(jsonData) :
      LET iso == isolatorId(t[1], t[2])
          inv == inverterId(t[1])
      IN /\ Edges(inv, iso, "daisy_positive") = 1
         /\ Edges(iso, inv, "daisy_negative_return") = 1
         /\ Cardinality({n \in DOMAIN result.connections :
                           {result.connections[n].from, result.connections[n].to}
                             = {inv, iso}}) = 2

\* the second isolator of the second inverter has its two home-run edges
C12_Witness ==
  /\ LaidOut
  /\ <<1, 1>> \in IsolatorPositions(jsonData)
  /\ Edges(inverterId(1), isolatorId(1, 1), "daisy_positive") = 1
  /\ Edges(isolatorId(1, 1), inverterId(1), "daisy_negative_return") = 1

\* The place of a component in the input tree: <<i>> for inverter i, <<i, j>>
\* for isolator j of inverter i, <<i, j, s, p>> for panel p of string s.
ComponentKeys(data) ==
  {<<i>> : i \in InverterPositions(data)} \cup IsolatorPositions(data)
    \cup PanelPositions(data)

IdOfKey(k) ==
  IF Len(k) = 1 THEN inverterId(k[1])
  ELSE IF Len(k) = 2 THEN isolatorId(k[1], k[2])
  ELSE panelId(k[1], k[2], k[3], k[4])

\* The place of a connection: <<i, j, -1, 0>> and <<i, j, -1, 1>> for the
\* positive and the return edge of the home run of isolator j of inverter i;
\* for string s of n panels <<i, j, s, 0>> for the edge into panel 0,
\* <<i, j, s, p + 1>> for the chain edge from panel p, <<i, j, s, n>> for the
\* return edge.
ConnectionKeys(data) ==
  UNION {{<<t[1], t[2], 0 - 1, 0>>, <<t[1], t[2], 0 - 1, 1>>} : t \in IsolatorPositions(data)}
    \cup UNION {{<<t[1], t[2], t[3], k>> : k \in 0..StringAt(data, t).length} :
                t \in {u \in StringPositions(data) : StringAt(data, u).length > 0}}

ConnectionOfKey(data, k) ==
  LET iso == isolatorId(k[1], k[2])
      P(p) == panelId(k[1], k[2], k[3], p)
  IN IF k[3] < 0
     THEN IF k[4] = 0
          THEN [from |-> inverterId(k[1]), to |-> iso, type |-> "daisy_positive"]
          ELSE [from |-> iso, to |-> inverterId(k[1]), type |-> "daisy_negative_return"]
     ELSE IF k[4] = 0
          THEN [from |-> iso, to |-> P(0), type |-> "daisy_positive"]
          ELSE IF k[4] = StringAt(data, <<k[1], k[2], k[3]>>).length
               THEN [from |-> P(k[4] - 1), to |-> iso, type |-> "daisy_negative_return"]
               ELSE [from |-> P(k[4] - 1), to |-> P(k[4]), type |-> "daisy_positive"]

\* a comes before b in a pre-order traversal: a is a proper prefix of b, or
\* a is smaller at the first index where they differ
Precedes(a, b) ==
  \/ Len(a) < Len(b) /\ \A l \in 1..Len(a) : a[l] = b[l]
  \/ \E m \in 1..Min(Len(a), Len(b)) :
        a[m] < b[m] /\ \A l \in 1..(m - 1) : a[l] = b[l]

\* C13: components and connections are appended in the order of a traversal
\* of the input: inverter i before inverter i + 1, within an inverter isolator
\* j before isolator j + 1, within an isolator string s before string s + 1,
\* within a string panels and chain edges by increasing panel index and the
\* return edge after the chain edges
C13_EmissionOrder ==
  LaidOut =>
    LET comps == result.components
        conns == result.connections
        CKey(n) == CHOOSE k \in ComponentKeys(jsonData) : IdOfKey(k) = comps[n].id
        EKey(n) == CHOOSE k \in ConnectionKeys(jsonData) :
                      ConnectionOfKey(jsonData, k) = conns[n]
    IN /\ \A n \in DOMAIN comps :
            \E k \in ComponentKeys(jsonData) : IdOfKey(k) = comps[n].id
       /\ \A n \in DOMAIN conns :
            \E k \in ConnectionKeys(jsonData) : ConnectionOfKey(jsonData, k) = conns[n]
       /\ \A m, n \in DOMAIN comps : m < n => Precedes(CKey(m), CKey(n))
       /\ \A m, n \in DOMAIN conns : m < n => Precedes(EKey(m), EKey(n))

TwoInvertersOneStringOfTwo ==
  [inverters |-> <<[isolators |-> <<[pvstrings |-> <<[model |-> "X", length |-> 2]>>]>>],
                   [isolators |-> <<[pvstrings |-> <<>>]>>]>>]

\* two inverters, the first with a string of two panels, came out in
\* traversal order
C13_Witness ==
  /\ LaidOut
  /\ jsonData = TwoInvertersOneStringOfTwo
  /\ [n \in DOMAIN result.components |-> result.components[n].id]
       = <<inverterId(0), isolatorId(0, 0), panelId(0, 0, 0, 0), panelId(0, 0, 0, 1),
           inverterId(1), isolatorId(1, 0)>>
  /\ [n \in DOMAIN result.connections |-> result.connections[n].to]
       = <<isolatorId(0, 0), inverterId(0), panelId(0, 0, 0, 0), panelId(0, 0, 0, 1),
           isolatorId(0, 0), isolatorId(1, 0), inverterId(1)>>

\* C14: getSystemStats returns the number of inverters, of isolators, of
\* strings and the sum of the strings' lengths, and leaves the document and
\* the converter as they were
C14_SystemStats ==
  /\ [](pc = "counted" =>
          result = [inverters   |-> Len(jsonData.inverters),
                    isolators   |-> Cardinality(IsolatorPositions(jsonData)),
                    pvStrings   |-> Cardinality(StringPositions(jsonData)),
                    totalPanels |-> Cardinality(PanelPositions(jsonData))])
  /\ [][pc' = "counted" =>
          jsonData' = jsonData /\ options' = options /\ symbols' = symbols]_vars

\* a converter that has served a conversion counted 1 inverter, 1 isolator,
\* 2 strings and 3 panels
C14_Witness ==
  /\ pc = "counted"
  /\ completed
  /\ jsonData = StringOfThreeAndEmptyString
  /\ result = [inverters |-> 1, isolators |-> 1, pvStrings |-> 2, totalPanels |-> 3]

\* every count of a document without inverters is zero
C14_WitnessEmpty ==
  /\ pc = "counted"
  /\ jsonData.inverters = <<>>
  /\ result = [inverters |-> 0, isolators |-> 0, pvStrings |-> 0, totalPanels |-> 0]

\* C15: a file wrapper reads, parses, converts and writes in this order;
\* when reading, parsing or converting fails the output file is not written
\* and the call ends by throwing that very error after logging it; the output
\* file is written only after a conversion that succeeded
C15_ErrorPropagation ==
  /\ [](error \in {"ENOENT", "SyntaxError", "TypeError"} => ~written)
  /\ [][/\ (pc' = "parsed" => pc = "read")
        /\ (pc' = "converted" => pc = "parsed")
        /\ (written' /\ ~written => pc = "converted" /\ error = NoError)
        /\ (pc = "failed" => pc' = "logged" /\ error' = error)
        /\ (pc = "logged" => pc' = "idle" /\ error' = error /\ error # NoError)]_vars

\* a call whose conversion raised a TypeError has ended: the caller holds
\* the TypeError and no output file was written
C15_Witness ==
  /\ pc = "idle"
  /\ error = "TypeError"
  /\ ~written

\* whether a parsed document has the shape of a SystemDescription
IsSystemDescription(data) ==
  /\ hasField(data, "inverters")
  /\ \A i \in DOMAIN data.inverters :
       /\ hasField(data.inverters[i], "isolators")
       /\ \A j \in DOMAIN data.inverters[i].isolators :
            /\ hasField(data.inverters[i].isolators[j], "pvstrings")
            /\ \A s \in DOMAIN data.inverters[i].isolators[j].pvstrings :
                 hasField(data.inverters[i].isolators[j].pvstrings[s], "length")

\* C16: for a document that lacks `inverters`, an inverter's `isolators`, an
\* isolator's `pvstrings` or a string's `length`, generateLayout ends in an
\* error and returns no layout
C16_ShapeViolationsFail ==
  (variant = "canvas" /\ pc \in {"converted", "failed"} /\ ~IsSystemDescription(jsonData))
    => (pc = "failed" /\ error = "TypeError" /\ result = NoResult)

RECURSIVE SumOfIsolatorHeights(_, _, _)
\* the sum over the isolators from index j (1-based) of strings * 70 + 80,
\* an isolator without strings counted as having emptyAs strings
SumOfIsolatorHeights(isolators, j, emptyAs) ==
  IF j > Len(isolators) THEN 0
  ELSE LET n == Len(isolators[j].pvstrings)
       IN ((IF n = 0 THEN emptyAs ELSE n) * 70) + 80
            + SumOfIsolatorHeights(isolators, j + 1, emptyAs)

BlockHeightBy(inverter, emptyAs) ==
  Max(140, SumOfIsolatorHeights(inverter.isolators, 1, emptyAs))

RECURSIVE BlockTopBy(_, _, _)
\* the running Y cursor when block i begins: margin + 120, advanced by the
\* block height and the gap of 200 for every block before
BlockTopBy(data, i, emptyAs) ==
  IF i = 0 THEN options.margin + 120
  ELSE BlockTopBy(data, i - 1, emptyAs) + BlockHeightBy(data.inverters[i], emptyAs) + 200

\* the component of the result with an identifier
ComponentOf(id) == CHOOSE c \in Range(result.components) : c.id = id

\* generateLayout used block heights that count an isolator without strings
\* as emptyAs strings: computed so, and the inverter symbols (50 high) are
\* centred in blocks of these heights
BlockHeightsAre(emptyAs) ==
  \A i \in InverterPositions(jsonData) :
    LET H == BlockHeightBy(jsonData.inverters[i + 1], emptyAs)
    IN /\ blockHeightOf(jsonData.inverters[i + 1]) = H
       /\ 2 * (ComponentOf(inverterId(i)).y + 25) = (2 * BlockTopBy(jsonData, i, emptyAs)) + H

\* the block height as max(140, sum of strings * 70 + 80), an isolator
\* without strings adding 80
C17_BlockHeight_Original == LaidOut => BlockHeightsAre(0)

\* C17: the block height of an inverter is max(140, sum over its isolators of
\* (max(number of strings, 1) * 70 + 80)): an isolator without strings adds
\* 150, an inverter without isolators gets 140
C17_BlockHeight == LaidOut => BlockHeightsAre(1)

\* the block of one inverter with one isolator without strings is 150 high:
\* the inverter symbol sits at margin + 120 + 75 - 25
C17_Witness ==
  /\ LaidOut
  /\ jsonData = OneInverterOneIsolatorNoStrings
  /\ result.components[1].y = options.margin + 170

\* the isolator and panel components of the subtree of inverter i
SubtreeBelow(i) ==
  {ComponentOf(isolatorId(t[1], t[2])) : t \in {u \in IsolatorPositions(jsonData) : u[1] = i}}
    \cup {ComponentOf(panelId(t[1], t[2], t[3], t[4])) :
            t \in {u \in PanelPositions(jsonData) : u[1] = i}}

\* C18: with T the running Y cursor when block i begins and H its block
\* height, the symbol of inverter i is centred at T + H / 2 and the box of
\* every isolator and of every panel of its subtree lies within [T, T + H]
C18_BlockContainment ==
  LaidOut =>
    \A i \in InverterPositions(jsonData) :
      LET T == BlockTopBy(jsonData, i, 1)
          H == BlockHeightBy(jsonData.inverters[i + 1], 1)
          inv == ComponentOf(inverterId(i))
      IN /\ 2 * inv.y + footprintHeight(symbols, inv) = (2 * T) + H
         /\ \A c \in SubtreeBelow(i) :
              T <= Box(c).top /\ Box(c).bottom <= T + H

TwoIsolatorsThreeStrings ==
  [inverters |-> <<[isolators |->
     <<[pvstrings |-> <<[model |-> "X", length |-> 0], [model |-> "X", length |-> 0]>>],
       [pvstrings |-> <<[model |-> "X", length |-> 1]>>]>>]>>]

\* a block of two isolators with two (empty) strings and one string is 370
\* high; the panel of the last string reaches down to 260 below the block top
C18_Witness ==
  /\ LaidOut
  /\ jsonData = TwoIsolatorsThreeStrings
  /\ Box(ComponentOf(panelId(0, 1, 0, 0))).bottom = options.margin + 120 + 260
  /\ (2 * ComponentOf(inverterId(0)).y) + 50 = (2 * (options.margin + 120)) + 370

\* every component of the subtree of inverter i, its own symbol included
Subtree(i) == {ComponentOf(inverterId(i))} \cup SubtreeBelow(i)

\* twice the top of block i as the result shows it: the centre of the
\* inverter symbol less half the block height
TwiceObservedTop(i) ==
  LET inv == ComponentOf(inverterId(i))
  IN ((2 * inv.y) + footprintHeight(symbols, inv))
       - BlockHeightBy(jsonData.inverters[i + 1], 1)

\* C19: the block of inverter i + 1 begins at the top of block i plus the
\* height of block i plus 200, and every component of the subtree of inverter
\* i + 1 lies strictly below every component of the subtree of inverter i
C19_BlockSeparation ==
  LaidOut =>
    \A i \in InverterPositions(jsonData) :
      (i + 1) \in InverterPositions(jsonData) =>
        /\ TwiceObservedTop(i + 1)
             = TwiceObservedTop(i) + (2 * (BlockHeightBy(jsonData.inverters[i + 1], 1) + 200))
        /\ \A t \in IsolatorPositions(jsonData) :
             (t[1] = i + 1 /\ t[2] = 0) =>
               2 * ComponentOf(isolatorId(i + 1, 0)).y = TwiceObservedTop(i + 1)
        /\ \A c \in Subtree(i), d \in Subtree(i + 1) : Box(c).bottom < Box(d).top

\* the second of two inverters begins 150 + 200 below the first: its isolator
\* is at margin + 120 + 350, below the panels of the first
C19_Witness ==
  /\ LaidOut
  /\ jsonData = TwoInvertersOneStringOfTwo
  /\ ComponentOf(isolatorId(1, 0)).y = options.margin + 120 + 350
  /\ Box(ComponentOf(panelId(0, 0, 0, 1))).bottom < ComponentOf(inverterId(1)).y

\* C20: the slot lookup gives isolator j of inverter i the slot index j, the
\* number of isolators of inverter i as total, and the group of inverter i;
\* the isolators of one inverter lie at strictly increasing Y in the order of
\* their indices
C20_SlotAssignment ==
  pc = "rendered" =>
    /\ DOMAIN page.isolatorSlotLookup
         = {isolatorId(t[1], t[2]) : t \in IsolatorPositions(jsonData)}
    /\ \A t \in IsolatorPositions(jsonData) :
         LET slotInfo == page.isolatorSlotLookup[isolatorId(t[1], t[2])]
         IN /\ slotInfo.slotIndex = t[2]
            /\ slotInfo.totalSlots = Len(jsonData.inverters[t[1] + 1].isolators)
            /\ slotInfo.inverterIndex = ToString(t[1])
    /\ \A t, u \in IsolatorPositions(jsonData) :
         (t[1] = u[1] /\ t[2] < u[2]) =>
            ComponentOf(isolatorId(t[1], t[2])).y < ComponentOf(isolatorId(u[1], u[2])).y

TwoIsolatorsAndOne ==
  [inverters |-> <<[isolators |-> <<[pvstrings |-> <<>>], [pvstrings |-> <<>>]>>],
                   [isolators |-> <<[pvstrings |-> <<>>]>>]>>]

\* the page of two inverters with two isolators and one isolator: the second
\* isolator of the first has slot 1 of 2, the isolator of the second slot 0
\* of 1
C20_Witness ==
  /\ pc = "rendered"
  /\ jsonData = TwoIsolatorsAndOne
  /\ page.isolatorSlotLookup[isolatorId(0, 1)]
       = [inverterIndex |-> "0", slotIndex |-> 1, totalSlots |-> 2]
  /\ page.isolatorSlotLookup[isolatorId(1, 0)]
       = [inverterIndex |-> "1", slotIndex |-> 0, totalSlots |-> 1]

\* the line the page has drawn for the connection from f to t of type ty
PathOf(f, t, ty) ==
  page.paths[CHOOSE n \in DOMAIN result.connections :
               result.connections[n] = [from |-> f, to |-> t, type |-> ty]]

\* the Y at which connection index k of inverter i meets the inverter: where
\* the positive run to isolator k / 2 starts (k even), where the return of
\* isolator (k - 1) / 2 ends (k odd)
InverterConnectionY(i, k) ==
  IF k % 2 = 0
  THEN PathOf(inverterId(i), isolatorId(i, k \div 2), "daisy_positive")[1].y
  ELSE PathOf(isolatorId(i, k \div 2), inverterId(i), "daisy_negative_return")[4].y

\* C21: the 2n connection points of an inverter with n >= 1 isolators are
\* strictly increasing in the connection index (so pairwise distinct), evenly
\* spaced, and lie within [inverter.y + 4, inverter.y + inverterHeight - 4]
C21_InverterConnectionPoints ==
  pc = "rendered" =>
    \A i \in InverterPositions(jsonData) :
      LET n == Len(jsonData.inverters[i + 1].isolators)
          inv == ComponentOf(inverterId(i))
          low == Rat(inv.y + 4)
          high == Rat((inv.y + symbols.inverter.height) - 4)
      IN /\ \A k \in 0..((2 * n) - 1) :
              /\ ~RatLess(InverterConnectionY(i, k), low)
              /\ ~RatLess(high, InverterConnectionY(i, k))
         /\ \A k \in 0..((2 * n) - 2) :
              RatLess(InverterConnectionY(i, k), InverterConnectionY(i, k + 1))
         /\ \A k \in 0..((2 * n) - 3) :
              RatEq(RatSub(InverterConnectionY(i, k + 1), InverterConnectionY(i, k)),
                    RatSub(InverterConnectionY(i, k + 2), InverterConnectionY(i, k + 1)))

OneInverterFourIsolators ==
  [inverters |-> <<[isolators |-> <<[pvstrings |-> <<>>], [pvstrings |-> <<>>],
                                     [pvstrings |-> <<>>], [pvstrings |-> <<>>]>>]>>]

\* the eight connection points of an inverter with four isolators are 30/7
\* apart: the first at y + 10, the second at y + 10 + 30/7, the last at y + 40
C21_Witness ==
  /\ pc = "rendered"
  /\ jsonData = OneInverterFourIsolators
  /\ RatEq(InverterConnectionY(0, 0), Rat(ComponentOf(inverterId(0)).y + 10))
  /\ RatEq(InverterConnectionY(0, 1),
           [num |-> ((ComponentOf(inverterId(0)).y + 10) * 7) + 30, den |-> 7])
  /\ RatEq(InverterConnectionY(0, 7), Rat(ComponentOf(inverterId(0)).y + 40))

\* the X of the vertical segment of the positive run to isolator j of
\* inverter i
PositiveJogX(i, j) == PathOf(inverterId(i), isolatorId(i, j), "daisy_positive")[2].x

\* C22: the vertical segment of the positive run from inverter i to its
\* isolator in slot j is at the inverter's right edge + 28 + 32 * j, so two
\* isolators of one inverter never have their vertical segments at the same X
C22_PositiveLaneSeparation ==
  pc = "rendered" =>
    /\ \A t \in IsolatorPositions(jsonData) :
         LET inv == ComponentOf(inverterId(t[1]))
         IN /\ PathOf(inverterId(t[1]), isolatorId(t[1], t[2]), "daisy_positive")[3].x
                 = PositiveJogX(t[1], t[2])
            /\ PositiveJogX(t[1], t[2]) = inv.x + symbols.inverter.width + 28 + (32 * t[2])
    /\ \A t, u \in IsolatorPositions(jsonData) :
         (t[1] = u[1] /\ t[2] # u[2]) => PositiveJogX(t[1], t[2]) # PositiveJogX(u[1], u[2])

\* the positive lanes of two isolators of one inverter coincide
C22_LanesCoincide ==
  /\ pc = "rendered"
  /\ \E t, u \in IsolatorPositions(jsonData) :
        t[1] = u[1] /\ t[2] # u[2] /\ PositiveJogX(t[1], t[2]) = PositiveJogX(u[1], u[2])

\* the X of the vertical segment of the return from isolator j of inverter i
NegativeJogX(i, j) ==
  PathOf(isolatorId(i, j), inverterId(i), "daisy_negative_return")[2].x

\* C23: the vertical segment of the return of every isolator is at the
\* inverter's right edge + 60 + 36 * slot, strictly right of the vertical
\* segment of the positive run of the same slot, and the returns of two
\* isolators of one inverter are at different X
C23_NegativeLanesFartherOut ==
  pc = "rendered" =>
    /\ \A t \in IsolatorPositions(jsonData) :
         LET inv == ComponentOf(inverterId(t[1]))
         IN /\ PathOf(isolatorId(t[1], t[2]), inverterId(t[1]),
                      "daisy_negative_return")[3].x = NegativeJogX(t[1], t[2])
            /\ NegativeJogX(t[1], t[2]) = inv.x + symbols.inverter.width + 60 + (36 * t[2])
            /\ NegativeJogX(t[1], t[2]) > PositiveJogX(t[1], t[2])
    /\ \A t, u \in IsolatorPositions(jsonData) :
         (t[1] = u[1] /\ t[2] # u[2]) => NegativeJogX(t[1], t[2]) # NegativeJogX(u[1], u[2])

\* an inverter with four isolators: the return of slot 3 runs at the right
\* edge + 168, its positive run at the right edge + 80
C23_Witness ==
  /\ pc = "rendered"
  /\ jsonData = OneInverterFourIsolators
  /\ NegativeJogX(0, 3) = ComponentOf(inverterId(0)).x + 80 + 168
  /\ PositiveJogX(0, 3) = ComponentOf(inverterId(0)).x + 80 + 80

\* C24: no two components laid out by convertToSVG have intersecting boxes,
\* the busbar taken with its own width and height
C24_GridNonOverlap ==
  Drawn =>
    \A m, n \in DOMAIN result.components :
      m # n => ~Intersect(Box(result.components[m]), Box(result.components[n]))

\* five strings of one isolator have been drawn: the fifth sits in the
\* second row, 90 below the first string and in its column
C24_Witness ==
  /\ Drawn
  /\ \E c, d \in Range(result.components) :
        /\ c.id = gridPvId(0, 0, 0)
        /\ d.id = gridPvId(0, 0, 4)
        /\ d.x = c.x
        /\ d.y = c.y + 90

RECURSIVE GridSumOfIsolatorHeights(_, _)
\* the sum over the isolators from index j (1-based) of rows * 90 + 120, an
\* isolator of n strings having ceil(n / 4) rows
GridSumOfIsolatorHeights(isolators, j) ==
  IF j > Len(isolators) THEN 0
  ELSE (((Len(isolators[j].pvstrings) + 3) \div 4) * 90) + 120
         + GridSumOfIsolatorHeights(isolators, j + 1)

GridBlockHeight(inverter) == Max(140, GridSumOfIsolatorHeights(inverter.isolators, 1))

RECURSIVE GridBlockTop(_, _)
\* the top of the block of inverter i: margin + 120, advanced by the block
\* height and the gap of 150 for every block before
GridBlockTop(data, i) ==
  IF i = 0 THEN options.margin + 120
  ELSE GridBlockTop(data, i - 1) + GridBlockHeight(data.inverters[i]) + 150

\* C25: convertToSVG creates exactly one busbar, busbar_main; with at least
\* one inverter it reaches from 60 above the first block to 60 below the last
\* block, so that it covers the block of every inverter; there is exactly one
\* busbar_connection from busbar_main to every inverter and no other
C25_Busbar ==
  Drawn =>
    LET comps == result.components
        conns == result.connections
        buses == {n \in DOMAIN comps : comps[n].type = "busbar"}
        links == {n \in DOMAIN conns : conns[n].type = "busbar_connection"}
        last == Len(jsonData.inverters) - 1
    IN /\ Cardinality(buses) = 1
       /\ Cardinality({n \in DOMAIN comps : comps[n].id = "busbar_main"}) = 1
       /\ \A n \in buses : comps[n].id = "busbar_main"
       /\ Len(jsonData.inverters) > 0 =>
            \A n \in buses :
              /\ comps[n].y = GridBlockTop(jsonData, 0) - 60
              /\ comps[n].y + comps[n].height
                   = GridBlockTop(jsonData, last)
                       + GridBlockHeight(jsonData.inverters[last + 1]) + 60
              /\ \A i \in InverterPositions(jsonData) :
                   /\ comps[n].y <= GridBlockTop(jsonData, i)
                   /\ GridBlockTop(jsonData, i) + GridBlockHeight(jsonData.inverters[i + 1])
                        <= comps[n].y + comps[n].height
                   /\ \A c \in Range(comps) :
                        c.id = inverterId(i) =>
                          /\ GridBlockTop(jsonData, i) <= c.y
                          /\ c.y + symbols.inverter.height
                               <= GridBlockTop(jsonData, i)
                                    + GridBlockHeight(jsonData.inverters[i + 1])
       /\ Cardinality(links) = Len(jsonData.inverters)
       /\ \A n \in links : conns[n].from = "busbar_main"
       /\ \A i \in InverterPositions(jsonData) :
            Cardinality({n \in links : conns[n].to = inverterId(i)}) = 1

\* two inverters, the first with four strings (a block 210 high), are spanned
\* by a busbar of height 210 + 150 + 140 + 120 that starts at margin + 60
C25_Witness ==
  /\ Drawn
  /\ Len(jsonData.inverters) = 2
  /\ Len(jsonData.inverters[1].isolators) = 1
  /\ Len(jsonData.inverters[1].isolators[1].pvstrings) = 4
  /\ result.components[1].id = "busbar_main"
  /\ result.components[1].y = options.margin + 60
  /\ result.components[1].height = 210 + 150 + 140 + 120

\* C26: over the calls of convertToSVG on one converter options.width and
\* options.height never decrease; after a call that succeeded both are at
\* least what the converter was constructed with and at least the right and
\* the bottom edge of every component of the call plus the margin
C26_OptionsMonotone ==
  /\ [][options'.width >= options.width /\ options'.height >= options.height]_vars
  /\ [](Drawn =>
          /\ options.width >= configured.width
          /\ options.height >= configured.height
          /\ \A c \in Range(result.components) :
               /\ options.width >= Box(c).right + options.margin
               /\ options.height >= Box(c).bottom + options.margin)

\* a converter whose canvas a former call has widened has drawn a document
\* without inverters and kept the wider canvas
C26_Witness ==
  /\ Drawn
  /\ completed
  /\ jsonData.inverters = <<>>
  /\ options.width > configured.width

\* C27: a convertToSVG call that throws because the document lacks
\* `inverters`, `isolators` or `pvstrings` leaves options and symbols exactly
\* as they were before the call, so the next call finds the converter as if
\* the failed call had not happened
C27_StateUnchangedOnError ==
  [][(variant = "svg" /\ pc = "parsed" /\ pc' = "failed") =>
        /\ throwsTypeError(jsonData)
        /\ options' = options
        /\ symbols' = symbols
        /\ result' = NoResult]_vars

\* a converter whose canvas a former call has made higher has failed on a
\* document without the expected fields and still has the higher canvas
C27_Witness ==
  /\ variant = "svg"
  /\ pc = "failed"
  /\ error = "TypeError"
  /\ completed
  /\ options.height > configured.height

\* positions of convertHTMLToPDF between newPage and the end of its finally
\* block
InTryStatement == {"setViewport", "setContent", "waitForTimeout", "pdf", "catch", "finally"}

\* the errors the awaited calls of the try block reject with
TryErrors == {"ViewportError", "ContentError", "DelayError", "PdfError"}

C29_BrowserClosedAtExit ==
  (command \in {"convert", "url"} /\ process # "running")
    => \A b \in DOMAIN browsers : browsers[b] = "closed"

\* the url command has exited with status 1 after page.goto failed, and the
\* browser it launched is still live
C29_ExitedWithLiveBrowser ==
  /\ command = "url"
  /\ process = "exited"
  /\ pdfError = "NavigationError"
  /\ browser # NoBrowser
  /\ browsers[browser] = "live"

\* the success path: the command has ended and its browser is closed
C29_EndedWithClosedBrowser ==
  /\ command \in {"convert", "url"}
  /\ process = "ended"
  /\ browsers = <<"closed">>

\* C30: whenever convertHTMLToPDF calls newPage, this.browser is a browser
\* that was launched and has not been closed.
C30_PageOnLiveBrowser ==
  pdfPc = "newPage" => (browser # NoBrowser /\ browsers[browser] = "live")

\* convertHTMLToPDF after close(): newPage is called on the closed browser
\* and no other browser was launched
C30_NewPageOnClosedBrowser ==
  /\ command = "none"
  /\ pdfPc = "newPage"
  /\ browsers = <<"closed">>
  /\ browser = 1

\* close() on a converter that never launched a browser changes nothing
C30_CloseBeforeInitialize ==
  [][(pdfPc = "idle" /\ command = "none" /\ browser = NoBrowser /\ pdfPc' = "idle"
      /\ pdfOptions' = pdfOptions /\ pdfError' = NoError /\ command' = "none"
      /\ browser' = NoBrowser)
     => (browsers' = browsers /\ openPages' = openPages)]_vars

====
